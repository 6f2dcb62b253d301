------------------------ MODULE CommandQueueProofs ------------------------
(***************************************************************************)
(* Proofs about module CommandQueue, for every number of operations, slots *)
(* and deliveries, every size of the result cache and any number of        *)
(* crashes: a delivery whose result the Agent has not lost is executed at  *)
(* most once (ExecutedOnce), what a row records is the result the Agent    *)
(* keeps (ResultIsTheAgents), and a terminal row is final except for the   *)
(* retry of a failed command under a new id (TerminalIsFinal).             *)
(*                                                                         *)
(* Neither invariant is inductive.  That a command is not executed again   *)
(* rests on there being one task for a delivery, which holds because the   *)
(* poll loop that is about to start one has seen that there is none        *)
(* (OneTask); and on the result being in the cache from the moment it is   *)
(* remembered (RanOnce).  That a row records the Agent's result rests on   *)
(* everything that carries a result, a task that reports, a request in     *)
(* flight and an entry on disk, agreeing with the cache (Recorded), unless *)
(* the delivery is forgotten.                                              *)
(*                                                                         *)
(* The last part is about Recovery: a user's data when nodes have failed.  *)
(***************************************************************************)
EXTENDS CommandQueue, Recovery, TLAPS

IsRow(r) == {"state", "id", "live", "fresh", "result"} \subseteq DOMAIN r /\ r.id \in Ids

IsTask(t) ==
    /\ {"cmd", "at", "result", "tries"} \subseteq DOMAIN t
    /\ t.cmd.id \in Ids
    /\ t.at = "start" => t.result = "none"
    /\ t.at \in {"executed", "report"} => t.result \in Results

\* The part of TypeOK the argument needs, and that a prepared enqueue finds
\* a delivery id.
Shape ==
    /\ DOMAIN rows = Ops /\ \A op \in Ops : rows[op] = NoRow \/ IsRow(rows[op])
    /\ lastId \in 0..MaxIds
    /\ prep # {} => lastId < MaxIds
    /\ \A p \in prep : p.op \in Ops
    /\ poll.at \in {"offered", "begun", "replayed", "acked"} => poll.cmd.id \in Ids
    /\ \A t \in tasks : IsTask(t)
    /\ cache \in Seq(Entry) /\ disk \in Seq(Entry)
    /\ DOMAIN ran = Ids /\ \A i \in Ids : ran[i] \in Nat

Holds(c, i, r) == \E k \in Kept(c, i) : c[k].result = r

\* The result r of delivery i is the one the Agent keeps, unless it lost it.
Told(i, r) == i \notin forgotten => Holds(cache, i, r)

\* A result that says so is the result of an execution.
Ran(i, r) == r = "done" => i \in Ids /\ ran[i] > 0

\* beginCommand: one goroutine for a delivery.
OneTask ==
    /\ \A t, u \in tasks : t.cmd.id = u.cmd.id => t = u
    /\ poll.at \in {"begun", "acked"} => ~Running(poll.cmd.id)

OneResult(c) == \A j, k \in 1..Len(c) : c[j].id = c[k].id => c[j] = c[k]

\* Whatever carries a result agrees with the cache.
CacheAgrees ==
    OneResult(cache) /\ \A k \in 1..Len(cache) : Ran(cache[k].id, cache[k].result)
DiskAgrees ==
    /\ OneResult(disk)
    /\ \A k \in 1..Len(disk) : /\ Ran(disk[k].id, disk[k].result)
                               /\ Told(disk[k].id, disk[k].result)
NetAgrees == \A m \in net : Ran(m.id, m.result) /\ Told(m.id, m.result)
Recorded == CacheAgrees /\ DiskAgrees /\ NetAgrees

TaskRecorded(t) ==
    /\ t.at = "executed" => t.cmd.op \notin PageOps /\ t.cmd.id \notin InCache(cache)
    /\ t.at = "report" => Told(t.cmd.id, t.result)
    /\ Ran(t.cmd.id, t.result)

Executed(i) == \E t \in tasks : t.at = "executed" /\ t.cmd.id = i

\* A delivery that ran is in the cache, or about to be put there.
RanOnce ==
    \A i \in Ids : i \notin forgotten =>
        ran[i] <= 1 /\ (ran[i] > 0 => i \in InCache(cache) \/ Executed(i))

AgentInv == OneTask /\ Recorded /\ (\A t \in tasks : TaskRecorded(t)) /\ RanOnce

QueueInv == Shape /\ AgentInv /\ ResultIsTheAgents

---------------------------------------------------------------------------
(* Steps that neither execute nor finish a command.                        *)

OpenRow(r) == IsRow(r) /\ r.state \notin {"succeeded", "failed"}

RowsOpen ==
    DOMAIN rows' = Ops /\ \A op \in Ops : rows'[op] = rows[op] \/ OpenRow(rows'[op])

EnqueueFits ==
    /\ lastId' \in 0..MaxIds
    /\ prep' # {} => lastId' < MaxIds
    /\ \A p \in prep' : p.op \in Ops

PollFits ==
    /\ poll'.at \in {"offered", "begun", "replayed", "acked"} => poll'.cmd.id \in Ids
    /\ poll'.at \in {"begun", "acked"} => ~Running(poll'.cmd.id)

Quiet ==
    /\ UNCHANGED tasks /\ UNCHANGED net /\ UNCHANGED cache
    /\ UNCHANGED ran /\ UNCHANGED forgotten
    /\ disk' = disk \/ disk' = cache
    /\ RowsOpen /\ EnqueueFits /\ PollFits

\* A quiet step keeps the invariant: it may save the cache as it is, offer or
\* acknowledge a command, and change rows that are not finished.
LEMMA QuietKeeps ==
    ASSUME QueueInv, Quiet
    PROVE  QueueInv'
<1>1. /\ UNCHANGED tasks /\ UNCHANGED net /\ UNCHANGED cache
      /\ UNCHANGED ran /\ UNCHANGED forgotten
    BY Zenon DEF Quiet
<1>2. OneTask' BY <1>1, Zenon DEF QueueInv, AgentInv, OneTask, Running, Quiet, PollFits
<1>3. \A i, r : Ran(i, r)' <=> Ran(i, r) BY <1>1, Zenon DEF Ran
<1>4. \A i, r : Told(i, r)' <=> Told(i, r) BY <1>1, Zenon DEF Told, Holds, Kept
<1>5. CacheAgrees'
    BY <1>1, <1>3, Zenon DEF QueueInv, AgentInv, Recorded, CacheAgrees, OneResult
<1>6. NetAgrees'
    BY <1>1, <1>3, <1>4, Zenon DEF QueueInv, AgentInv, Recorded, NetAgrees
<1>7. DiskAgrees'
    <2>1. CASE disk' = disk
        BY <1>3, <1>4, <2>1, Zenon DEF QueueInv, AgentInv, Recorded, DiskAgrees, OneResult
    <2>2. CASE disk' = cache
        <3>1. \A k \in 1..Len(cache) : Told(cache[k].id, cache[k].result)
            BY Zenon DEF Told, Holds, Kept
        <3>2. \A k \in 1..Len(cache) : Ran(cache[k].id, cache[k].result)
            BY Zenon DEF QueueInv, AgentInv, Recorded, CacheAgrees
        <3>3. OneResult(disk)'
            BY <2>2, Zenon DEF QueueInv, AgentInv, Recorded, CacheAgrees, OneResult
        <3> QED BY <1>3, <1>4, <2>2, <3>1, <3>2, <3>3, Zenon DEF DiskAgrees
    <2> QED BY <2>1, <2>2, Zenon DEF Quiet
<1>8. Recorded' BY <1>5, <1>6, <1>7, Zenon DEF Recorded
<1>9. \A t \in tasks' : TaskRecorded(t)'
    BY <1>1, <1>3, <1>4, Zenon DEF QueueInv, AgentInv, TaskRecorded, InCache
<1>10. RanOnce' BY <1>1, Zenon DEF QueueInv, AgentInv, RanOnce, InCache, Executed
<1>11. ResultIsTheAgents'
    <2>1. \A op \in Ops : rows'[op].state \in {"succeeded", "failed"} => rows'[op] = rows[op]
        BY Zenon DEF Quiet, RowsOpen, OpenRow
    <2>2. ASSUME NEW op \in Ops, rows'[op].state \in {"succeeded", "failed"}
          PROVE  /\ rows'[op].state = "succeeded" => ran'[rows'[op].id] > 0
                 /\ Told(rows'[op].id, rows'[op].result)
        BY <1>1, <2>1, <2>2, Zenon DEF QueueInv, ResultIsTheAgents, Told, Holds
    <2> QED BY <1>1, <2>2, Zenon DEF ResultIsTheAgents, Told, Holds, Kept
<1>12. Shape'
    <2>1. \A op \in Ops : rows'[op] = NoRow \/ IsRow(rows'[op])
        BY Zenon DEF Quiet, RowsOpen, OpenRow, QueueInv, Shape
    <2>2. disk' \in Seq(Entry) BY Zenon DEF Quiet, QueueInv, Shape
    <2> QED BY <1>1, <2>1, <2>2, Zenon
            DEF Quiet, RowsOpen, EnqueueFits, PollFits, QueueInv, Shape
<1> QED BY <1>2, <1>8, <1>9, <1>10, <1>11, <1>12, Zenon DEF QueueInv, AgentInv

\* The parts of a quiet step that a step leaves alone.
LEMMA QuietParts ==
    ASSUME QueueInv
    PROVE  /\ UNCHANGED rows => RowsOpen
           /\ UNCHANGED <<lastId, prep>> => EnqueueFits
           /\ UNCHANGED poll => PollFits
           /\ poll'.at = "idle" => PollFits
<1>1. UNCHANGED rows => RowsOpen BY Zenon DEF QueueInv, Shape, RowsOpen
<1>2. UNCHANGED <<lastId, prep>> => EnqueueFits BY Zenon DEF QueueInv, Shape, EnqueueFits
<1>3. UNCHANGED poll => PollFits
    BY Zenon DEF QueueInv, Shape, AgentInv, OneTask, PollFits
<1>4. poll'.at = "idle" => PollFits
    BY Zenon DEF PollFits
<1> QED BY <1>1, <1>2, <1>3, <1>4, Zenon

\* A step that gives one operation a row that is not finished.
LEMMA OneRow ==
    ASSUME QueueInv, NEW op \in Ops, NEW row, OpenRow(row), SetRow(op, row)
    PROVE  RowsOpen
BY Zenon DEF QueueInv, Shape, SetRow, RowsOpen

\* An update of a row of the table.
LEMMA UpdatedRow ==
    ASSUME Shape, NEW op \in Ops, rows[op].state \notin {"none", "succeeded", "failed"},
           NEW row, DOMAIN row = DOMAIN rows[op], row.id = rows[op].id,
           row.state \notin {"succeeded", "failed"}
    PROVE  OpenRow(row)
<1>1. rows[op] # NoRow BY DEF NoRow
<1> QED BY <1>1, Zenon DEF Shape, IsRow, OpenRow

\* PrepareEnqueue, PromoteControllerEpoch and ChangeMode touch no command.
LEMMA ModesQuiet ==
    ASSUME QueueInv,
           \/ \E op \in Ops, g \in {0, epoch} : PrepareEnqueue(op, g)
           \/ PromoteControllerEpoch \/ ChangeMode
    PROVE  Quiet
<1>1. /\ UNCHANGED tasks /\ UNCHANGED net /\ UNCHANGED cache /\ UNCHANGED ran
      /\ UNCHANGED forgotten /\ UNCHANGED disk /\ UNCHANGED rows /\ UNCHANGED poll
    BY Zenon DEF PrepareEnqueue, PromoteControllerEpoch, ChangeMode, agent, history
<1>2. EnqueueFits
    <2>1. CASE \E op \in Ops, g \in {0, epoch} : PrepareEnqueue(op, g)
        <3>1. PICK op \in Ops, g \in {0, epoch} : PrepareEnqueue(op, g) BY <2>1, Zenon
        <3>2. prep' = {[op |-> op, expected |-> g, key |-> cred.ver]}
            BY <3>1, Zenon DEF PrepareEnqueue
        <3>3. \A p \in prep' : p.op \in Ops BY <3>2
        <3>4. lastId < MaxIds /\ UNCHANGED lastId BY <3>1, Zenon DEF PrepareEnqueue
        <3> QED BY <3>3, <3>4, Zenon DEF EnqueueFits, QueueInv, Shape
    <2>2. CASE PromoteControllerEpoch \/ ChangeMode
        BY <2>2, QuietParts, Zenon DEF PromoteControllerEpoch, ChangeMode
    <2> QED BY <2>1, <2>2, Zenon
<1> QED BY <1>1, <1>2, QuietParts, Zenon DEF Quiet

\* EnqueueAgentCommand gives a row a delivery id that was never used.
LEMMA EnqueueQuiet ==
    ASSUME QueueInv, EnqueueAgentCommand
    PROVE  Quiet
<1>1. /\ UNCHANGED tasks /\ UNCHANGED net /\ UNCHANGED cache /\ UNCHANGED ran
      /\ UNCHANGED forgotten /\ UNCHANGED disk /\ UNCHANGED poll /\ prep' = {}
    BY Zenon DEF EnqueueAgentCommand, agent, history
<1>2. PICK p \in prep :
        \/ /\ lastId' = lastId + 1
           /\ \E born : SetRow(p.op, [state |-> "queued", id |-> lastId + 1,
                                      gen |-> epoch, key |-> p.key, born |-> born,
                                      live |-> FALSE, fresh |-> TRUE, result |-> "none"])
        \/ UNCHANGED <<rows, lastId>>
    BY Zenon DEF EnqueueAgentCommand, DeliveryId
<1>3. CASE UNCHANGED <<rows, lastId>>
    <2>1. EnqueueFits BY <1>1, <1>3, Zenon DEF EnqueueFits, QueueInv, Shape
    <2> QED BY <1>1, <1>3, <2>1, QuietParts, Zenon DEF Quiet
<1>4. ASSUME NEW born, lastId' = lastId + 1,
             SetRow(p.op, [state |-> "queued", id |-> lastId + 1,
                           gen |-> epoch, key |-> p.key, born |-> born,
                           live |-> FALSE, fresh |-> TRUE, result |-> "none"])
      PROVE  Quiet
    <2>1. lastId \in 0..MaxIds /\ lastId < MaxIds /\ p.op \in Ops
        BY <1>2, Zenon DEF QueueInv, Shape
    <2>2. lastId + 1 \in 1..MaxIds BY <2>1, CommandQueueAssumption DEF CommandQueueAssumption
    <2>3. PICK row : row = [state |-> "queued", id |-> lastId + 1,
                            gen |-> epoch, key |-> p.key, born |-> born,
                            live |-> FALSE, fresh |-> TRUE, result |-> "none"]
        BY Zenon
    <2>4. /\ {"state", "id", "live", "fresh", "result"} \subseteq DOMAIN row
          /\ row.id = lastId + 1 /\ row.state = "queued"
        BY <2>3, Zenon
    <2>5. OpenRow(row) BY <2>2, <2>4, Zenon DEF OpenRow, IsRow, Ids
    <2>6. RowsOpen BY <1>4, <2>1, <2>3, <2>5, OneRow, Zenon
    <2>7. lastId' \in 0..MaxIds
        BY <1>4, <2>2, CommandQueueAssumption DEF CommandQueueAssumption
    <2>8. EnqueueFits BY <1>1, <2>7, Zenon DEF EnqueueFits
    <2> QED BY <1>1, <2>6, <2>8, QuietParts, Zenon DEF Quiet
<1> QED BY <1>2, <1>3, <1>4, Zenon

\* Time passes, and a waiter finds a command expired.
LEMMA ClockQuiet ==
    ASSUME QueueInv, NEW op \in Ops, GetAgentCommandResult(op) \/ Lapse(op) \/ GoStale(op)
    PROVE  Quiet
<1>1. /\ UNCHANGED tasks /\ UNCHANGED net /\ UNCHANGED cache /\ UNCHANGED ran
      /\ UNCHANGED forgotten /\ UNCHANGED disk /\ UNCHANGED poll /\ UNCHANGED <<lastId, prep>>
    BY Zenon DEF GetAgentCommandResult, Lapse, GoStale, agent, history
<1>2. rows[op].state \in {"queued"} \cup InFlight
    BY Zenon DEF GetAgentCommandResult, Lapse, GoStale
<1>3. rows[op].state \notin {"none", "succeeded", "failed"} BY <1>2, Zenon DEF InFlight
<1>4. \E row : /\ SetRow(op, row) /\ DOMAIN row = DOMAIN rows[op] /\ row.id = rows[op].id
               /\ row.state \notin {"succeeded", "failed"}
    <2>1. {"state", "live", "fresh", "id"} \subseteq DOMAIN rows[op]
        <3>1. rows[op] # NoRow BY <1>3 DEF NoRow
        <3> QED BY <3>1, Zenon DEF QueueInv, Shape, IsRow
    <2>2. CASE GetAgentCommandResult(op)
        <3>1. PICK row : row = [rows[op] EXCEPT !.state = "expired"] BY Zenon
        <3>2. DOMAIN row = DOMAIN rows[op] /\ row.id = rows[op].id /\ row.state = "expired"
            BY <2>1, <3>1, Zenon
        <3>3. SetRow(op, row) BY <2>2, <3>1, Zenon DEF GetAgentCommandResult
        <3>4. row.state \notin {"succeeded", "failed"} BY <3>2, Zenon
        <3> QED BY <3>2, <3>3, <3>4, Zenon
    <2>3. CASE Lapse(op)
        <3>1. PICK row : row = [rows[op] EXCEPT !.live = FALSE] BY Zenon
        <3>2. DOMAIN row = DOMAIN rows[op] /\ row.id = rows[op].id /\ row.state = rows[op].state
            BY <2>1, <3>1, Zenon
        <3>3. SetRow(op, row) BY <2>3, <3>1, Zenon DEF Lapse
        <3> QED BY <1>3, <3>2, <3>3, Zenon
    <2>4. CASE GoStale(op)
        <3>1. PICK row : row = [rows[op] EXCEPT !.fresh = FALSE] BY Zenon
        <3>2. DOMAIN row = DOMAIN rows[op] /\ row.id = rows[op].id /\ row.state = rows[op].state
            BY <2>1, <3>1, Zenon
        <3>3. SetRow(op, row) BY <2>4, <3>1, Zenon DEF GoStale
        <3> QED BY <1>3, <3>2, <3>3, Zenon
    <2> QED BY <2>2, <2>3, <2>4, Zenon
<1>5. RowsOpen BY <1>3, <1>4, UpdatedRow, OneRow, Zenon DEF QueueInv
<1> QED BY <1>1, <1>5, QuietParts, Zenon DEF Quiet

\* A rotation expires what is not finished and leaves the rest.
LEMMA RotationQuiet ==
    ASSUME QueueInv, ActivateAgentCredentialRotation
    PROVE  Quiet
<1>1. /\ UNCHANGED tasks /\ UNCHANGED net /\ UNCHANGED cache /\ UNCHANGED ran
      /\ UNCHANGED forgotten /\ UNCHANGED disk /\ UNCHANGED poll /\ UNCHANGED <<lastId, prep>>
      /\ rows' = [op \in Ops |-> ExpireUnfinished(rows[op])]
    BY Zenon DEF ActivateAgentCredentialRotation, agent, history
<1>2. ASSUME NEW op \in Ops PROVE rows'[op] = rows[op] \/ OpenRow(rows'[op])
    <2>1. CASE rows[op].state \in {"queued"} \cup InFlight
        <3>1. PICK row : row = [rows[op] EXCEPT !.state = "expired", !.live = FALSE, !.fresh = FALSE]
            BY Zenon
        <3>2. rows'[op] = row BY <1>1, <2>1, <3>1, Zenon DEF ExpireUnfinished
        <3>3. rows[op].state \notin {"none", "succeeded", "failed"} BY <2>1, Zenon DEF InFlight
        <3>4. {"state", "id"} \subseteq DOMAIN rows[op]
            <4>1. rows[op] # NoRow BY <3>3 DEF NoRow
            <4> QED BY <4>1, Zenon DEF QueueInv, Shape, IsRow
        <3>5. DOMAIN row = DOMAIN rows[op] /\ row.id = rows[op].id /\ row.state = "expired"
            BY <3>1, <3>4, Zenon
        <3>6. row.state \notin {"succeeded", "failed"} BY <3>5, Zenon
        <3> QED BY <3>2, <3>3, <3>5, <3>6, UpdatedRow, Zenon DEF QueueInv
    <2>2. CASE rows[op].state \notin {"queued"} \cup InFlight
        BY <1>1, <2>2, Zenon DEF ExpireUnfinished
    <2> QED BY <2>1, <2>2, Zenon
<1>3. RowsOpen BY <1>1, <1>2, Zenon DEF RowsOpen
<1> QED BY <1>1, <1>3, QuietParts, Zenon DEF Quiet

\* The Agent's steps that leave the table and its tasks alone.
LEMMA PollQuiet ==
    ASSUME QueueInv,
           \/ ActivatePendingCredential \/ RecordControllerSuccess
           \/ BeginPoll \/ NoContent \/ PollFails
    PROVE  Quiet
<1>1. /\ UNCHANGED tasks /\ UNCHANGED net /\ UNCHANGED cache /\ UNCHANGED ran
      /\ UNCHANGED forgotten /\ UNCHANGED rows /\ UNCHANGED <<lastId, prep>>
    BY Zenon DEF ActivatePendingCredential, RecordControllerSuccess, BeginPoll, NoContent,
                 PollFails, controller, history
<1>2. disk' = disk \/ disk' = cache
    BY Zenon DEF ActivatePendingCredential, RecordControllerSuccess, BeginPoll, NoContent,
                 PollFails, SaveGeneration
<1>3. UNCHANGED poll \/ poll' = [at |-> "polling", hdr |-> epoch] \/ poll' = Idle
    BY Zenon DEF ActivatePendingCredential, RecordControllerSuccess, BeginPoll, NoContent,
                 PollFails
<1>4. poll' = [at |-> "polling", hdr |-> epoch] => PollFits
    <2>1. poll' = [at |-> "polling", hdr |-> epoch] => poll'.at = "polling" OBVIOUS
    <2> QED BY <2>1, Zenon DEF PollFits
<1>5. poll' = Idle => PollFits
    <2>1. poll' = Idle => poll'.at = "idle" BY DEF Idle
    <2> QED BY <2>1, Zenon DEF PollFits
<1> QED BY <1>1, <1>2, <1>3, <1>4, <1>5, QuietParts, Zenon DEF Quiet

\* LeaseAgentCommand hands out a queued command, or a lapsed one again.
LEMMA LeaseQuiet ==
    ASSUME QueueInv, NEW op \in Ops, LeaseAgentCommand(op)
    PROVE  Quiet
<1>1. /\ UNCHANGED tasks /\ UNCHANGED net /\ UNCHANGED cache /\ UNCHANGED ran
      /\ UNCHANGED forgotten /\ UNCHANGED disk /\ UNCHANGED <<lastId, prep>>
    BY Zenon DEF LeaseAgentCommand, history
<1>2. rows[op].state \in {"queued"} \cup InFlight /\ rows[op] # NoRow
    BY Zenon DEF LeaseAgentCommand, Leasable
<1>3. rows[op].state \notin {"none", "succeeded", "failed"} BY <1>2, Zenon DEF InFlight
<1>4. IsRow(rows[op]) BY <1>2, Zenon DEF QueueInv, Shape
<1>5. PICK row : row = [rows[op] EXCEPT !.state = "leased", !.live = TRUE, !.fresh = FALSE]
    BY Zenon
<1>6. DOMAIN row = DOMAIN rows[op] /\ row.id = rows[op].id /\ row.state = "leased"
    BY <1>4, <1>5, Zenon DEF IsRow
<1>7. row.state \notin {"succeeded", "failed"} BY <1>6, Zenon
<1>8. SetRow(op, row) BY <1>5, Zenon DEF LeaseAgentCommand
<1>9. RowsOpen BY <1>3, <1>6, <1>7, <1>8, UpdatedRow, OneRow, Zenon DEF QueueInv
<1>10. poll'.at = "offered" /\ poll'.cmd.id = rows[op].id
    BY Zenon DEF LeaseAgentCommand, CommandOf
<1>11. PollFits BY <1>4, <1>10, Zenon DEF PollFits, IsRow
<1> QED BY <1>1, <1>9, <1>11, QuietParts, Zenon DEF Quiet

\* pollAndRunCommand starts no goroutine for a delivery that has one.
LEMMA OfferQuiet ==
    ASSUME QueueInv, ReceiveOffer
    PROVE  Quiet
<1>1. /\ UNCHANGED tasks /\ UNCHANGED net /\ UNCHANGED cache /\ UNCHANGED ran
      /\ UNCHANGED forgotten /\ UNCHANGED rows /\ UNCHANGED <<lastId, prep>>
      /\ (disk' = disk \/ disk' = cache)
    BY Zenon DEF ReceiveOffer, controller, history, SaveGeneration
<1>2. poll.cmd.id \in Ids BY Zenon DEF ReceiveOffer, QueueInv, Shape
<1>3. \/ poll' = Idle
      \/ poll' = [at |-> IF Running(poll.cmd.id) THEN "replayed" ELSE "begun", cmd |-> poll.cmd]
    BY Zenon DEF ReceiveOffer
<1>4. CASE poll' = Idle BY <1>1, <1>4, QuietParts, Zenon DEF Quiet, Idle
<1>5. CASE poll' = [at |-> IF Running(poll.cmd.id) THEN "replayed" ELSE "begun", cmd |-> poll.cmd]
    <2>1. poll'.cmd = poll.cmd BY <1>5, Zenon
    <2>2. poll'.at = IF Running(poll.cmd.id) THEN "replayed" ELSE "begun" BY <1>5, Zenon
    <2>3. Running(poll.cmd.id) => poll'.at \notin {"begun", "acked"} BY <2>2, Zenon
    <2>4. PollFits BY <1>2, <2>1, <2>3, Zenon DEF PollFits
    <2> QED BY <1>1, <2>4, QuietParts, Zenon DEF Quiet
<1> QED BY <1>3, <1>4, <1>5, Zenon

\* An acknowledgement or a renewal makes the row a running one.
LEMMA RunningRowOpen ==
    ASSUME QueueInv, NEW cmd, Acknowledges(cmd), RunningRow(cmd)
    PROVE  RowsOpen
<1>1. CASE cmd.op \in Ops
    <2>1. rows[cmd.op].state \in InFlight BY Zenon DEF Acknowledges
    <2>2. rows[cmd.op].state \notin {"none", "succeeded", "failed"} BY <2>1, Zenon DEF InFlight
    <2>3. IsRow(rows[cmd.op])
        <3>1. rows[cmd.op] # NoRow BY <2>2 DEF NoRow
        <3> QED BY <1>1, <3>1, Zenon DEF QueueInv, Shape
    <2>4. PICK row : row = [rows[cmd.op] EXCEPT !.state = "running", !.live = TRUE] BY Zenon
    <2>5. DOMAIN row = DOMAIN rows[cmd.op] /\ row.id = rows[cmd.op].id /\ row.state = "running"
        BY <2>3, <2>4, Zenon DEF IsRow
    <2>6. row.state \notin {"succeeded", "failed"} BY <2>5, Zenon
    <2>7. SetRow(cmd.op, row) BY <2>4, Zenon DEF RunningRow
    <2> QED BY <1>1, <2>2, <2>5, <2>6, <2>7, UpdatedRow, OneRow, Zenon DEF QueueInv
<1>2. CASE cmd.op \notin Ops
    <2>1. DOMAIN rows' = Ops /\ \A op \in Ops : rows'[op] = rows[op]
        BY <1>2, Zenon DEF RunningRow, SetRow, QueueInv, Shape
    <2> QED BY <2>1, Zenon DEF RowsOpen
<1> QED BY <1>1, <1>2, Zenon

\* AckAgentCommand; the acknowledged command is not running yet.
LEMMA AckQuiet ==
    ASSUME QueueInv, AckAgentCommand
    PROVE  Quiet
<1>1. /\ UNCHANGED tasks /\ UNCHANGED net /\ UNCHANGED cache /\ UNCHANGED ran
      /\ UNCHANGED forgotten /\ UNCHANGED disk /\ UNCHANGED <<lastId, prep>>
    BY Zenon DEF AckAgentCommand, history
<1>2. RowsOpen BY RunningRowOpen, Zenon DEF AckAgentCommand
<1>3. CASE poll' = Idle BY <1>1, <1>2, <1>3, QuietParts, Zenon DEF Quiet, Idle
<1>4. CASE poll.at = "begun" /\ poll' = [at |-> "acked", cmd |-> poll.cmd]
    <2>1. poll'.cmd = poll.cmd BY <1>4, Zenon
    <2>2. poll.cmd.id \in Ids /\ ~Running(poll.cmd.id)
        BY <1>4, Zenon DEF QueueInv, Shape, AgentInv, OneTask
    <2>3. PollFits BY <2>1, <2>2, Zenon DEF PollFits
    <2> QED BY <1>1, <1>2, <2>3, QuietParts, Zenon DEF Quiet
<1> QED BY <1>3, <1>4, Zenon DEF AckAgentCommand

\* renewCommandLease.
LEMMA RenewQuiet ==
    ASSUME QueueInv, NEW t, RenewCommandLease(t)
    PROVE  Quiet
<1>1. /\ UNCHANGED tasks /\ UNCHANGED net /\ UNCHANGED cache /\ UNCHANGED ran
      /\ UNCHANGED forgotten /\ UNCHANGED disk /\ UNCHANGED poll /\ UNCHANGED <<lastId, prep>>
    BY Zenon DEF RenewCommandLease, agent, history
<1>2. RowsOpen BY RunningRowOpen, Zenon DEF RenewCommandLease
<1> QED BY <1>1, <1>2, QuietParts, Zenon DEF Quiet

---------------------------------------------------------------------------
(* Results on their way.                                                   *)

\* FinishAgentCommand records a result that the Agent keeps.
LEMMA FinishRecords ==
    ASSUME QueueInv, NEW m, Ran(m.id, m.result), Told(m.id, m.result),
           FinishAgentCommand(m), UNCHANGED <<ran, forgotten, cache>>
    PROVE  /\ DOMAIN rows' = Ops /\ \A op \in Ops : rows'[op] = NoRow \/ IsRow(rows'[op])
           /\ ResultIsTheAgents'
<1>1. DOMAIN rows' = Ops BY Zenon DEF FinishAgentCommand
<1>2. ASSUME NEW op \in Ops
      PROVE  \/ rows'[op] = rows[op]
             \/ /\ IsRow(rows'[op]) /\ rows'[op].id = m.id /\ rows'[op].result = m.result
                /\ rows'[op].state = "succeeded" => m.result = "done"
    <2>1. CASE Finishes(op, m)
        <3>1. PICK row : row = [rows[op] EXCEPT !.state = IF m.result = "done" THEN "succeeded"
                                                          ELSE "failed",
                                                !.live = FALSE, !.result = m.result]
            BY Zenon
        <3>2. rows'[op] = row BY <2>1, <3>1, Zenon DEF FinishAgentCommand
        <3>3. IsRow(rows[op]) /\ rows[op].id = m.id
            BY <2>1, Zenon DEF Finishes, QueueInv, Shape
        <3>4. DOMAIN row = DOMAIN rows[op] /\ row.id = rows[op].id /\ row.result = m.result
            BY <3>1, <3>3, Zenon DEF IsRow
        <3>5. row.state = IF m.result = "done" THEN "succeeded" ELSE "failed"
            BY <3>1, <3>3, Zenon DEF IsRow
        <3>6. row.state = "succeeded" => m.result = "done" BY <3>5, Zenon
        <3>7. IsRow(row) BY <3>3, <3>4, Zenon DEF IsRow
        <3> QED BY <3>2, <3>3, <3>4, <3>6, <3>7, Zenon
    <2>2. CASE ~Finishes(op, m) BY <2>2, Zenon DEF FinishAgentCommand
    <2> QED BY <2>1, <2>2, Zenon
<1>3. \A op \in Ops : rows'[op] = NoRow \/ IsRow(rows'[op])
    BY <1>2, Zenon DEF QueueInv, Shape
<1>4. ASSUME NEW op \in Ops, rows'[op].state \in {"succeeded", "failed"}
      PROVE  /\ rows'[op].state = "succeeded" => ran'[rows'[op].id] > 0
             /\ rows'[op].id \notin forgotten' =>
                  \E i \in Kept(cache', rows'[op].id) : cache'[i].result = rows'[op].result
    <2>1. CASE rows'[op] = rows[op]
        BY <1>4, <2>1, Zenon DEF QueueInv, ResultIsTheAgents
    <2>2. CASE /\ rows'[op].id = m.id /\ rows'[op].result = m.result
               /\ rows'[op].state = "succeeded" => m.result = "done"
        BY <2>2, Zenon DEF Ran, Told, Holds
    <2> QED BY <1>2, <2>1, <2>2, Zenon
<1>5. ResultIsTheAgents' BY <1>4, Zenon DEF ResultIsTheAgents, Kept
<1> QED BY <1>1, <1>3, <1>5, Zenon

\* A late result request is handled like the first one.
LEMMA LateResultKeeps ==
    ASSUME QueueInv, NEW m \in net, HandleLateResult(m)
    PROVE  QueueInv'
<1>1. /\ UNCHANGED tasks /\ UNCHANGED cache /\ UNCHANGED ran
      /\ UNCHANGED forgotten /\ UNCHANGED disk /\ UNCHANGED poll /\ UNCHANGED lastId
      /\ UNCHANGED prep /\ net' = net \ {m} /\ FinishAgentCommand(m)
    BY Zenon DEF HandleLateResult, agent, history
<1>2. /\ DOMAIN rows' = Ops /\ \A op \in Ops : rows'[op] = NoRow \/ IsRow(rows'[op])
      /\ ResultIsTheAgents'
    <2>1. Ran(m.id, m.result) /\ Told(m.id, m.result)
        BY Zenon DEF QueueInv, AgentInv, Recorded, NetAgrees
    <2> QED BY <1>1, <2>1, FinishRecords, Zenon
<1>3. Shape' BY <1>1, <1>2, Zenon DEF QueueInv, Shape
<1>4. \A i, r : (Ran(i, r)' <=> Ran(i, r)) /\ (Told(i, r)' <=> Told(i, r))
    BY <1>1, Zenon DEF Ran, Told, Holds, Kept
<1>5. NetAgrees' BY <1>1, <1>4, Zenon DEF QueueInv, AgentInv, Recorded, NetAgrees
<1>6. CacheAgrees' BY <1>1, <1>4, Zenon DEF QueueInv, AgentInv, Recorded, CacheAgrees, OneResult
<1>7. DiskAgrees' BY <1>1, <1>4, Zenon DEF QueueInv, AgentInv, Recorded, DiskAgrees, OneResult
<1>8. OneTask' BY <1>1, Zenon DEF QueueInv, AgentInv, OneTask, Running
<1>9. \A t \in tasks' : TaskRecorded(t)'
    BY <1>1, <1>4, Zenon DEF QueueInv, AgentInv, TaskRecorded, InCache
<1>10. RanOnce' BY <1>1, Zenon DEF QueueInv, AgentInv, RanOnce, InCache, Executed
<1> QED BY <1>2, <1>3, <1>5, <1>6, <1>7, <1>8, <1>9, <1>10, Zenon
        DEF QueueInv, AgentInv, Recorded

---------------------------------------------------------------------------
(* Tasks.                                                                  *)

\* The tasks after a step: each is sound, each has its delivery to itself.
TasksFit ==
    /\ \A u \in tasks' : IsTask(u)
    /\ \A u, v \in tasks' : u.cmd.id = v.cmd.id => u = v
    /\ (poll.at \in {"begun", "acked"} => ~Running(poll.cmd.id))'

\* One task of a delivery takes the place of another, or ends.
LEMMA TaskMoves ==
    ASSUME QueueInv, NEW t \in tasks, NEW u, u.cmd = t.cmd, IsTask(u),
           Replace(t, u) \/ End(t), UNCHANGED poll
    PROVE  TasksFit
<1>1. \A v \in tasks' : v = u \/ (v \in tasks /\ v # t) BY Zenon DEF Replace, End
<1>2. \A v \in tasks : v.cmd.id = t.cmd.id => v = t
    BY Zenon DEF QueueInv, AgentInv, OneTask
<1>3. \A v \in tasks' : IsTask(v) BY <1>1, Zenon DEF QueueInv, Shape
<1>4. \A v, w \in tasks' : v.cmd.id = w.cmd.id => v = w
    BY <1>1, <1>2, Zenon DEF QueueInv, AgentInv, OneTask
<1>5. (poll.at \in {"begun", "acked"} => ~Running(poll.cmd.id))'
    BY <1>1, Zenon DEF QueueInv, AgentInv, OneTask, Running
<1> QED BY <1>3, <1>4, <1>5, Zenon DEF TasksFit

\* Steps of a task that change neither what ran nor what is kept.
LEMMA TaskStepKeeps ==
    ASSUME QueueInv, TasksFit,
           UNCHANGED <<cache, disk, ran, forgotten, lastId, prep>>,
           poll'.at \in {"offered", "begun", "replayed", "acked"} => poll'.cmd.id \in Ids,
           DOMAIN rows' = Ops, \A op \in Ops : rows'[op] = NoRow \/ IsRow(rows'[op]),
           ResultIsTheAgents',
           \A m \in net' : Ran(m.id, m.result) /\ Told(m.id, m.result),
           \A u \in tasks' : TaskRecorded(u),
           \A u \in tasks : u.at = "executed" => u \in tasks'
    PROVE  QueueInv'
<1>1. /\ UNCHANGED cache /\ UNCHANGED disk /\ UNCHANGED ran /\ UNCHANGED forgotten
      /\ UNCHANGED lastId /\ UNCHANGED prep
    BY Zenon
<1>2. Shape' BY <1>1, Zenon DEF QueueInv, Shape, TasksFit
<1>3. OneTask' BY Zenon DEF OneTask, TasksFit
<1>4. \A i, r : (Ran(i, r)' <=> Ran(i, r)) /\ (Told(i, r)' <=> Told(i, r))
    BY <1>1, Zenon DEF Ran, Told, Holds, Kept
<1>5. NetAgrees' BY <1>4, Zenon DEF NetAgrees
<1>6. CacheAgrees' BY <1>1, <1>4, Zenon DEF QueueInv, AgentInv, Recorded, CacheAgrees, OneResult
<1>7. DiskAgrees' BY <1>1, <1>4, Zenon DEF QueueInv, AgentInv, Recorded, DiskAgrees, OneResult
<1>8. \A u \in tasks' : TaskRecorded(u)' BY <1>1, <1>4, Zenon DEF TaskRecorded, InCache
<1>9. RanOnce'
    <2>1. \A i : Executed(i) => Executed(i)' BY Zenon DEF Executed
    <2>2. InCache(cache)' = InCache(cache) BY <1>1, Zenon DEF InCache
    <2> QED BY <1>1, <2>1, <2>2, Zenon DEF QueueInv, AgentInv, RanOnce
<1> QED BY <1>2, <1>3, <1>5, <1>6, <1>7, <1>8, <1>9, Zenon DEF QueueInv, AgentInv, Recorded

\* The table while the Agent works on its own.
LEMMA RowsStay ==
    ASSUME QueueInv, UNCHANGED <<rows, cache, ran, forgotten>>
    PROVE  /\ DOMAIN rows' = Ops /\ \A op \in Ops : rows'[op] = NoRow \/ IsRow(rows'[op])
           /\ ResultIsTheAgents'
BY Zenon DEF QueueInv, Shape, ResultIsTheAgents, Kept

\* A task that ends takes nothing with it that the invariant needs.
LEMMA OthersRecorded ==
    ASSUME QueueInv, NEW t \in tasks, NEW u, TaskRecorded(u), t.at # "executed",
           Replace(t, u) \/ End(t)
    PROVE  /\ \A v \in tasks' : TaskRecorded(v)
           /\ \A v \in tasks : v.at = "executed" => v \in tasks'
BY Zenon DEF QueueInv, AgentInv, Replace, End

\* A slot is taken: the poll loop had made sure that the delivery has no task.
LEMMA TakeSlotKeeps ==
    ASSUME QueueInv, TakeSlot
    PROVE  QueueInv'
<1>1. /\ UNCHANGED <<cache, disk, ran, forgotten, lastId, prep>> /\ UNCHANGED rows
      /\ UNCHANGED net /\ poll' = Idle /\ poll.at = "acked"
    BY Zenon DEF TakeSlot, controller, history
<1>2. PICK u : u = [cmd |-> poll.cmd, at |-> "start", result |-> "none", tries |-> 0] BY Zenon
<1>3. /\ {"cmd", "at", "result", "tries"} \subseteq DOMAIN u
      /\ u.cmd = poll.cmd /\ u.at = "start" /\ u.result = "none"
    BY <1>2, Zenon
<1>4. tasks' = tasks \cup {u} BY <1>2, Zenon DEF TakeSlot
<1>5. u.cmd.id \in Ids /\ \A v \in tasks : v.cmd.id # u.cmd.id
    BY <1>1, <1>3, Zenon DEF QueueInv, Shape, AgentInv, OneTask, Running
<1>6. IsTask(u) BY <1>3, <1>5, Zenon DEF IsTask
<1>7. poll'.at = "idle" BY <1>1, Zenon DEF Idle
<1>8. TasksFit
    BY <1>4, <1>5, <1>6, <1>7, Zenon DEF TasksFit, QueueInv, Shape, AgentInv, OneTask
<1>9. TaskRecorded(u) BY <1>3, Zenon DEF TaskRecorded, Ran
<1>10. /\ \A v \in tasks' : TaskRecorded(v)
       /\ \A v \in tasks : v.at = "executed" => v \in tasks'
    BY <1>4, <1>9, Zenon DEF QueueInv, AgentInv
<1>11. /\ DOMAIN rows' = Ops /\ \A op \in Ops : rows'[op] = NoRow \/ IsRow(rows'[op])
       /\ ResultIsTheAgents'
    BY <1>1, RowsStay, Zenon
<1>12. \A m \in net' : Ran(m.id, m.result) /\ Told(m.id, m.result)
    BY <1>1, Zenon DEF QueueInv, AgentInv, Recorded, NetAgrees
<1>13. poll'.at \in {"offered", "begun", "replayed", "acked"} => poll'.cmd.id \in Ids
    BY <1>7, Zenon
<1> QED BY <1>1, <1>8, <1>10, <1>11, <1>12, <1>13, TaskStepKeeps, Zenon

\* A delivery that comes again is answered from the cache.
LEMMA ReuseKeeps ==
    ASSUME QueueInv, NEW t \in tasks, ReuseResult(t)
    PROVE  QueueInv'
<1>1. /\ UNCHANGED <<cache, disk, ran, forgotten, lastId, prep>> /\ UNCHANGED rows
      /\ UNCHANGED net /\ UNCHANGED poll /\ t.at = "start"
    BY Zenon DEF ReuseResult, controller, history
<1>2. PICK r \in CachedResult(t.cmd) : Replace(t, [t EXCEPT !.at = "report", !.result = r])
    BY Zenon DEF ReuseResult
<1>3. PICK i \in Kept(cache, t.cmd.id) : r = cache[i].result BY <1>2, Zenon DEF CachedResult
<1>4. IsTask(t) BY Zenon DEF QueueInv, Shape
<1>5. PICK u : u = [t EXCEPT !.at = "report", !.result = r] BY Zenon
<1>6. u.cmd = t.cmd /\ u.at = "report" /\ u.result = r /\ DOMAIN u = DOMAIN t
    BY <1>4, <1>5, Zenon DEF IsTask
<1>7. i \in 1..Len(cache) /\ cache[i].id = t.cmd.id BY <1>3, Zenon DEF Kept
<1>8. r \in Results
    <2>1. cache \in Seq(Entry) BY Zenon DEF QueueInv, Shape
    <2>2. cache[i] \in Entry BY <1>7, <2>1
    <2> QED BY <1>3, <2>2, Zenon DEF Entry
<1>9. IsTask(u) BY <1>4, <1>6, <1>8, Zenon DEF IsTask
<1>10. TaskRecorded(u)
    <2>1. Ran(t.cmd.id, r) BY <1>3, <1>7, Zenon DEF QueueInv, AgentInv, Recorded, CacheAgrees
    <2>2. Told(t.cmd.id, r) BY <1>3, Zenon DEF Told, Holds
    <2> QED BY <1>6, <2>1, <2>2, Zenon DEF TaskRecorded
<1>11. TasksFit BY <1>1, <1>2, <1>5, <1>6, <1>9, TaskMoves, Zenon
<1>12. /\ \A v \in tasks' : TaskRecorded(v)
       /\ \A v \in tasks : v.at = "executed" => v \in tasks'
    BY <1>1, <1>2, <1>5, <1>10, OthersRecorded, Zenon
<1>13. /\ DOMAIN rows' = Ops /\ \A op \in Ops : rows'[op] = NoRow \/ IsRow(rows'[op])
       /\ ResultIsTheAgents'
    BY <1>1, RowsStay, Zenon
<1>14. \A m \in net' : Ran(m.id, m.result) /\ Told(m.id, m.result)
    BY <1>1, Zenon DEF QueueInv, AgentInv, Recorded, NetAgrees
<1>15. poll'.at \in {"offered", "begun", "replayed", "acked"} => poll'.cmd.id \in Ids
    BY <1>1, Zenon DEF QueueInv, Shape
<1> QED BY <1>1, <1>11, <1>12, <1>13, <1>14, <1>15, TaskStepKeeps, Zenon

\* A result request: accepted, or not answered and perhaps handled later.
LEMMA ReportKeeps ==
    ASSUME QueueInv, NEW t \in tasks, ReportAccepted(t) \/ ReportUnanswered(t)
    PROVE  QueueInv'
<1>1. /\ UNCHANGED <<cache, disk, ran, forgotten, lastId, prep>>
      /\ UNCHANGED poll /\ t.at = "report"
    BY Zenon DEF ReportAccepted, ReportUnanswered, controller, history
<1>2. PICK u : /\ Replace(t, u) \/ End(t)
               /\ u = t \/ u = [t EXCEPT !.tries = @ + 1]
    BY Zenon DEF ReportAccepted, ReportUnanswered
<1>3. IsTask(t) BY Zenon DEF QueueInv, Shape
<1>4. u.cmd = t.cmd /\ u.at = t.at /\ u.result = t.result /\ DOMAIN u = DOMAIN t
    BY <1>2, <1>3, Zenon DEF IsTask
<1>5. IsTask(u) BY <1>3, <1>4, Zenon DEF IsTask
<1>6. TaskRecorded(u)
    <2>1. TaskRecorded(t) BY Zenon DEF QueueInv, AgentInv
    <2> QED BY <1>4, <2>1, Zenon DEF TaskRecorded
<1>7. TasksFit BY <1>1, <1>2, <1>4, <1>5, TaskMoves, Zenon
<1>8. /\ \A v \in tasks' : TaskRecorded(v)
      /\ \A v \in tasks : v.at = "executed" => v \in tasks'
    BY <1>1, <1>2, <1>6, OthersRecorded, Zenon
<1>9. PICK m : m = ResultOf(t) BY Zenon
<1>10. m.id = t.cmd.id /\ m.result = t.result BY <1>9, Zenon DEF ResultOf
<1>11. Ran(m.id, m.result) /\ Told(m.id, m.result)
    BY <1>1, <1>10, Zenon DEF QueueInv, AgentInv, TaskRecorded
<1>12. /\ DOMAIN rows' = Ops /\ \A op \in Ops : rows'[op] = NoRow \/ IsRow(rows'[op])
       /\ ResultIsTheAgents'
    <2>1. UNCHANGED rows \/ FinishAgentCommand(m)
        BY <1>9, Zenon DEF ReportAccepted, ReportUnanswered, controller
    <2> QED BY <1>1, <1>11, <2>1, FinishRecords, RowsStay, Zenon
<1>13. \A n \in net' : Ran(n.id, n.result) /\ Told(n.id, n.result)
    <2>1. \A n \in net' : n \in net \/ n = m
        BY <1>9, Zenon DEF ReportAccepted, ReportUnanswered
    <2> QED BY <1>11, <2>1, Zenon DEF QueueInv, AgentInv, Recorded, NetAgrees
<1>14. poll'.at \in {"offered", "begun", "replayed", "acked"} => poll'.cmd.id \in Ids
    BY <1>1, Zenon DEF QueueInv, Shape
<1> QED BY <1>1, <1>7, <1>8, <1>12, <1>13, <1>14, TaskStepKeeps, Zenon

---------------------------------------------------------------------------
(* Execution, and what the Agent remembers of it.                          *)

\* Steps that change what ran or what is kept: no result that was told is
\* contradicted, and no execution undone.
Faithful ==
    /\ \A i, r : Told(i, r) => Told(i, r)'
    /\ \A i, r : Ran(i, r) => Ran(i, r)'

\* A faithful step of the Agent keeps the table and the requests in flight.
LEMMA FaithfulKeeps ==
    ASSUME QueueInv, Faithful, UNCHANGED <<rows, net>>
    PROVE  ResultIsTheAgents' /\ NetAgrees'
<1>1. NetAgrees' BY Zenon DEF QueueInv, AgentInv, Recorded, NetAgrees, Faithful
<1>2. ASSUME NEW op \in Ops, rows[op].state \in {"succeeded", "failed"}
      PROVE  /\ rows[op].state = "succeeded" => ran'[rows[op].id] > 0
             /\ Told(rows[op].id, rows[op].result)'
    <2>1. rows[op].state = "succeeded" => Ran(rows[op].id, "done")
        <3>1. rows[op] # NoRow BY <1>2 DEF NoRow
        <3>2. rows[op].id \in Ids BY <3>1, Zenon DEF QueueInv, Shape, IsRow
        <3> QED BY <1>2, <3>2, Zenon DEF QueueInv, ResultIsTheAgents, Ran
    <2>2. rows[op].state = "succeeded" => Ran(rows[op].id, "done")'
        BY <2>1, Zenon DEF Faithful
    <2>3. Told(rows[op].id, rows[op].result)
        BY <1>2, Zenon DEF QueueInv, ResultIsTheAgents, Told, Holds
    <2> QED BY <2>2, <2>3, Zenon DEF Faithful, Ran
<1>3. ResultIsTheAgents' BY <1>2, Zenon DEF ResultIsTheAgents, Told, Holds
<1> QED BY <1>1, <1>3, Zenon

\* A command that is executed had not been: no result of it is kept, and its
\* only task is the one that starts now.
LEMMA NotRunYet ==
    ASSUME QueueInv, NEW t \in tasks, t.at = "start", t.cmd.op \notin PageOps,
           CachedResult(t.cmd) = {}
    PROVE  /\ t.cmd.id \notin InCache(cache)
           /\ t.cmd.id \notin forgotten => ran[t.cmd.id] = 0
<1>1. Kept(cache, t.cmd.id) = {} BY Zenon DEF CachedResult
<1>2. t.cmd.id \notin InCache(cache) BY <1>1, Zenon DEF Kept, InCache
<1>3. ~Executed(t.cmd.id) BY Zenon DEF Executed, QueueInv, AgentInv, OneTask
<1>4. t.cmd.id \in Ids BY Zenon DEF QueueInv, Shape, IsTask
<1>5. t.cmd.id \notin forgotten => ~(ran[t.cmd.id] > 0)
    BY <1>2, <1>3, <1>4, Zenon DEF QueueInv, AgentInv, RanOnce
<1>6. ran[t.cmd.id] \in Nat BY <1>4, Zenon DEF QueueInv, Shape
<1> QED BY <1>2, <1>5, <1>6

\* executeAndReportCommand runs a command for which no result is kept.
LEMMA ExecuteKeeps ==
    ASSUME QueueInv, NEW t \in tasks, ExecuteCommand(t)
    PROVE  QueueInv'
<1>1. /\ UNCHANGED rows /\ UNCHANGED net /\ UNCHANGED lastId /\ UNCHANGED prep
      /\ UNCHANGED poll /\ UNCHANGED cache /\ UNCHANGED disk
      /\ t.at = "start" /\ CachedResult(t.cmd) = {}
    BY Zenon DEF ExecuteCommand, controller
<1>2. PICK r \in Results :
        /\ Replace(t, [t EXCEPT !.result = r,
                       !.at = IF t.cmd.op \in PageOps THEN "report" ELSE "executed"])
        /\ ran' = IF r = "invalid_payload" THEN ran
                  ELSE [ran EXCEPT ![t.cmd.id] = Once(ran[t.cmd.id])]
    BY Zenon DEF ExecuteCommand, Results
<1>3. forgotten' = forgotten \cup (IF t.cmd.op \in PageOps THEN {t.cmd.id} ELSE {})
    BY Zenon DEF ExecuteCommand
<1>4. IsTask(t) BY Zenon DEF QueueInv, Shape
<1>5. PICK u : u = [t EXCEPT !.result = r,
                     !.at = IF t.cmd.op \in PageOps THEN "report" ELSE "executed"]
    BY Zenon
<1>6. /\ u.cmd = t.cmd /\ u.result = r /\ DOMAIN u = DOMAIN t
      /\ u.at = IF t.cmd.op \in PageOps THEN "report" ELSE "executed"
    BY <1>4, <1>5, Zenon DEF IsTask
<1>7. u.at \in {"executed", "report"} /\ (u.at = "report" <=> t.cmd.op \in PageOps)
    BY <1>6, Zenon
<1>8. Replace(t, u) BY <1>2, <1>5, Zenon
<1>9. IsTask(u) BY <1>4, <1>6, <1>7, Zenon DEF IsTask
<1>10. TasksFit BY <1>1, <1>6, <1>8, <1>9, TaskMoves, Zenon
<1>11. t.cmd.id \in Ids BY <1>4, Zenon DEF IsTask
<1>12. /\ DOMAIN ran' = Ids /\ \A i \in Ids : ran'[i] \in Nat
       /\ \A i \in Ids : ran[i] > 0 => ran'[i] > 0
       /\ \A i \in Ids : i # t.cmd.id => ran'[i] = ran[i]
       /\ r = "done" => ran'[t.cmd.id] > 0
       /\ ran[t.cmd.id] = 0 => ran'[t.cmd.id] <= 1
    <2>1. DOMAIN ran = Ids /\ \A i \in Ids : ran[i] \in Nat BY Zenon DEF QueueInv, Shape
    <2>2. CASE r = "invalid_payload" BY <1>2, <1>11, <2>1, <2>2
    <2>3. CASE r # "invalid_payload"
        <3>1. ran' = [ran EXCEPT ![t.cmd.id] = Once(ran[t.cmd.id])] BY <1>2, <2>3, Zenon
        <3>2. Once(ran[t.cmd.id]) \in Nat /\ Once(ran[t.cmd.id]) > 0
              /\ (ran[t.cmd.id] = 0 => Once(ran[t.cmd.id]) <= 1)
            BY DEF Once
        <3>3. PICK n : n = Once(ran[t.cmd.id]) BY Zenon
        <3>4. DOMAIN ran' = Ids /\ ran'[t.cmd.id] = n /\ \A i \in Ids : i # t.cmd.id => ran'[i] = ran[i]
            BY <1>11, <2>1, <3>1, <3>3, Zenon
        <3> QED BY <1>11, <2>1, <3>2, <3>3, <3>4, Zenon
    <2> QED BY <2>2, <2>3, Zenon
<1>13. Faithful
    <2>1. \A i, x : Told(i, x) => Told(i, x)' BY <1>1, <1>3, Zenon DEF Told, Holds, Kept
    <2>2. \A i, x : Ran(i, x) => Ran(i, x)' BY <1>12, Zenon DEF Ran
    <2> QED BY <2>1, <2>2, Zenon DEF Faithful
<1>14. ResultIsTheAgents' /\ NetAgrees' BY <1>1, <1>13, FaithfulKeeps, Zenon
<1>15. Shape' BY <1>1, <1>10, <1>12, Zenon DEF QueueInv, Shape, TasksFit
<1>16. OneTask' BY <1>10, Zenon DEF OneTask, TasksFit
<1>17. CacheAgrees' /\ DiskAgrees'
    <2>1. CacheAgrees'
        BY <1>1, <1>13, Zenon DEF QueueInv, AgentInv, Recorded, CacheAgrees, OneResult, Faithful
    <2>2. DiskAgrees'
        BY <1>1, <1>13, Zenon DEF QueueInv, AgentInv, Recorded, DiskAgrees, OneResult, Faithful
    <2> QED BY <2>1, <2>2, Zenon
<1>18. t.cmd.op \notin PageOps =>
         t.cmd.id \notin InCache(cache) /\ (t.cmd.id \notin forgotten => ran[t.cmd.id] = 0)
    BY <1>1, NotRunYet, Zenon
<1>19. \A v \in tasks' : TaskRecorded(v)'
    <2>1. TaskRecorded(u)'
        <3>1. u.at = "executed" => u.cmd.op \notin PageOps /\ u.cmd.id \notin InCache(cache)'
            BY <1>1, <1>6, <1>7, <1>18, Zenon DEF InCache
        <3>2. u.at = "report" => Told(u.cmd.id, u.result)'
            BY <1>3, <1>6, <1>7, Zenon DEF Told
        <3>3. Ran(u.cmd.id, u.result)' BY <1>6, <1>11, <1>12, Zenon DEF Ran
        <3> QED BY <3>1, <3>2, <3>3, Zenon DEF TaskRecorded
    <2>2. \A v \in tasks : TaskRecorded(v)'
        BY <1>1, <1>13, Zenon DEF QueueInv, AgentInv, TaskRecorded, Faithful, InCache
    <2> QED BY <1>8, <2>1, <2>2, Zenon DEF Replace
<1>20. RanOnce'
    <2>1. ASSUME NEW i \in Ids, i \notin forgotten'
          PROVE  ran'[i] <= 1 /\ (ran'[i] > 0 => i \in InCache(cache') \/ Executed(i)')
        <3>1. CASE i = t.cmd.id
            <4>1. t.cmd.op \notin PageOps BY <1>3, <2>1, <3>1, Zenon
            <4>2. i \notin forgotten BY <1>3, <2>1, Zenon
            <4>3. ran'[i] <= 1 BY <1>12, <1>18, <3>1, <4>1, <4>2, Zenon
            <4>4. u \in tasks' /\ u.at = "executed" /\ u.cmd.id = i
                BY <1>6, <1>8, <3>1, <4>1, Zenon DEF Replace
            <4> QED BY <4>3, <4>4, Zenon DEF Executed
        <3>2. CASE i # t.cmd.id
            <4>1. ran'[i] = ran[i] /\ i \notin forgotten BY <1>3, <1>12, <2>1, <3>2, Zenon
            <4>2. Executed(i) => Executed(i)' BY <1>8, <3>2, Zenon DEF Executed, Replace
            <4>3. InCache(cache') = InCache(cache) BY <1>1, Zenon
            <4> QED BY <4>1, <4>2, <4>3, Zenon DEF QueueInv, AgentInv, RanOnce
        <3> QED BY <3>1, <3>2, Zenon
    <2> QED BY <2>1, Zenon DEF RanOnce, InCache
<1> QED BY <1>14, <1>15, <1>16, <1>17, <1>19, <1>20, Zenon DEF QueueInv, AgentInv, Recorded

\* What rememberResult makes of the cache: the new result and, of the old
\* ones, only such as were there.
LEMMA RememberedIs ==
    ASSUME cache \in Seq(Entry), NEW t, t.cmd.id \in Ids, t.result \in Results,
           t.cmd.id \notin InCache(cache)
    PROVE  /\ Remembered(t) \in Seq(Entry)
           /\ Holds(Remembered(t), t.cmd.id, t.result)
           /\ \A k \in 1..Len(Remembered(t)) :
                 \/ Remembered(t)[k] = [id |-> t.cmd.id, result |-> t.result]
                 \/ \E j \in 1..Len(cache) : Remembered(t)[k] = cache[j]
<1>1. PICK e : e = [id |-> t.cmd.id, result |-> t.result] BY Zenon
<1>2. e \in Entry /\ e.id = t.cmd.id /\ e.result = t.result BY <1>1, Zenon DEF Entry
<1>3. PICK all : all = Append(cache, e) BY Zenon
<1>4. /\ all \in Seq(Entry) /\ Len(all) = Len(cache) + 1 /\ all[Len(all)] = e
      /\ \A k \in 1..Len(cache) : all[k] = cache[k]
    BY <1>2, <1>3
<1>5. Len(cache) \in Nat BY SMT
<1>6. \A k \in 1..Len(all) : all[k] = e \/ \E j \in 1..Len(cache) : all[k] = cache[j]
    BY <1>4, <1>5
<1>7. Kept(cache, t.cmd.id) = {} BY Zenon DEF Kept, InCache
<1>8. Others(t.cmd.id) = cache BY <1>7, Zenon DEF Others
<1>9. PICK c : c = IF Len(all) > CacheMax THEN SubSeq(all, Len(all) - CacheMax + 1, Len(all))
                   ELSE all
    BY Zenon
<1>10. Remembered(t) = c BY <1>1, <1>3, <1>8, <1>9, Zenon DEF Remembered
<1>11. CacheMax \in Nat \ {0} BY CommandQueueAssumption, Zenon DEF CommandQueueAssumption
<1>12. /\ c \in Seq(Entry) /\ Len(c) \in 1..Len(all) /\ c[Len(c)] = e
       /\ \A k \in 1..Len(c) : \E j \in 1..Len(all) : c[k] = all[j]
    <2>1. CASE Len(all) > CacheMax
        <3>1. PICK m : m = Len(all) - CacheMax + 1 BY Zenon
        <3>2. m \in 1..Len(all) /\ Len(all) - m + 1 = CacheMax BY <1>4, <1>5, <1>11, <2>1, <3>1
        <3>3. c = SubSeq(all, m, Len(all)) BY <1>9, <2>1, <3>1, Zenon
        <3>4. /\ c \in Seq(Entry) /\ Len(c) = CacheMax
              /\ \A k \in 1..CacheMax : c[k] = all[m + k - 1]
            BY <1>4, <1>5, <1>11, <3>2, <3>3
        <3>5. \A k \in 1..CacheMax : m + k - 1 \in 1..Len(all)
            BY <1>4, <1>5, <1>11, <3>2
        <3>6. m + CacheMax - 1 = Len(all) BY <1>4, <1>5, <1>11, <3>2
        <3>7. c[CacheMax] = e BY <1>4, <1>11, <3>4, <3>6
        <3>8. CacheMax \in 1..Len(all) BY <1>4, <1>5, <1>11, <2>1
        <3> QED BY <3>4, <3>5, <3>7, <3>8, Zenon
    <2>2. CASE ~(Len(all) > CacheMax)
        <3>1. c = all BY <1>9, <2>2, Zenon
        <3>2. Len(all) \in 1..Len(all) BY <1>4, <1>5
        <3> QED BY <1>4, <3>1, <3>2, Zenon
    <2> QED BY <2>1, <2>2, Zenon
<1>13. Holds(c, t.cmd.id, t.result)
    <2>1. Len(c) \in 1..Len(c) BY <1>4, <1>5, <1>12
    <2> QED BY <1>2, <1>12, <2>1, Zenon DEF Holds, Kept
<1>14. ASSUME NEW k \in 1..Len(c)
       PROVE  c[k] = e \/ \E j \in 1..Len(cache) : c[k] = cache[j]
    <2>1. PICK i \in 1..Len(all) : c[k] = all[i] BY <1>12, Zenon
    <2> QED BY <1>6, <2>1, Zenon
<1> QED BY <1>1, <1>10, <1>12, <1>13, <1>14, Zenon

\* Results that are not lost survive a change of the cache: whatever the new
\* one says of a delivery the old one knew is what the old one said.
LEMMA CacheChanges ==
    ASSUME OneResult(cache), forgotten \subseteq forgotten',
           InCache(cache) \ InCache(cache') \subseteq forgotten',
           \A k \in 1..Len(cache') :
              cache'[k].id \in InCache(cache) /\ cache'[k].id \notin forgotten' =>
                 Holds(cache, cache'[k].id, cache'[k].result)
    PROVE  \A i, r : Told(i, r) => Told(i, r)'
<1> SUFFICES ASSUME NEW i, NEW r, Told(i, r), i \notin forgotten'
             PROVE  Holds(cache', i, r)
    BY Zenon DEF Told, Holds, Kept
<1>1. PICK k \in 1..Len(cache) : cache[k].id = i /\ cache[k].result = r
    BY Zenon DEF Told, Holds, Kept
<1>2. i \in InCache(cache) BY <1>1, Zenon DEF InCache
<1>3. PICK n \in 1..Len(cache') : cache'[n].id = i BY <1>2, Zenon DEF InCache
<1>4. PICK j \in 1..Len(cache) : cache[j].id = i /\ cache[j].result = cache'[n].result
    BY <1>2, <1>3, Zenon DEF Holds, Kept
<1>5. cache[j] = cache[k] BY <1>1, <1>4, Zenon DEF OneResult
<1> QED BY <1>1, <1>3, <1>4, <1>5, Zenon DEF Holds, Kept

\* rememberResult, whether or not the state is saved.
LEMMA RememberKeeps ==
    ASSUME QueueInv, NEW t \in tasks, RememberResult(t)
    PROVE  QueueInv'
<1>1. /\ UNCHANGED rows /\ UNCHANGED net /\ UNCHANGED lastId /\ UNCHANGED prep
      /\ UNCHANGED poll /\ UNCHANGED ran /\ t.at = "executed" /\ cache' = Remembered(t)
      /\ forgotten' = forgotten \cup (InCache(cache) \ InCache(cache'))
    BY Zenon DEF RememberResult, controller
<1>2. IsTask(t) /\ TaskRecorded(t) BY Zenon DEF QueueInv, Shape, AgentInv
<1>3. t.cmd.id \in Ids /\ t.result \in Results /\ t.cmd.id \notin InCache(cache)
    BY <1>1, <1>2, Zenon DEF IsTask, TaskRecorded
<1>4. PICK e : e = [id |-> t.cmd.id, result |-> t.result] BY Zenon
<1>5. e.id = t.cmd.id /\ e.result = t.result BY <1>4, Zenon
<1>6. /\ cache' \in Seq(Entry) /\ Holds(cache', t.cmd.id, t.result)
      /\ \A k \in 1..Len(cache') :
            cache'[k] = e \/ \E j \in 1..Len(cache) : cache'[k] = cache[j]
    <2>1. cache \in Seq(Entry) BY Zenon DEF QueueInv, Shape
    <2> QED BY <1>1, <1>3, <1>4, <2>1, RememberedIs, Zenon
<1>7. OneResult(cache) /\ \A k \in 1..Len(cache) : Ran(cache[k].id, cache[k].result)
    BY Zenon DEF QueueInv, AgentInv, Recorded, CacheAgrees
<1>8. \A j \in 1..Len(cache) : cache[j].id \in InCache(cache) BY Zenon DEF InCache
<1>9. \A k \in 1..Len(cache') :
         cache'[k].id \in InCache(cache) => Holds(cache, cache'[k].id, cache'[k].result)
    BY <1>3, <1>5, <1>6, Zenon DEF Holds, Kept
<1>10. Faithful
    <2>1. \A i, r : Told(i, r) => Told(i, r)' BY <1>1, <1>7, <1>9, CacheChanges, Zenon
    <2>2. \A i, r : Ran(i, r) => Ran(i, r)' BY <1>1, Zenon DEF Ran
    <2> QED BY <2>1, <2>2, Zenon DEF Faithful
<1>11. ResultIsTheAgents' /\ NetAgrees' BY <1>1, <1>10, FaithfulKeeps, Zenon
<1>12. CacheAgrees'
    <2>1. ASSUME NEW i \in 1..Len(cache'), NEW k \in 1..Len(cache'), cache'[i].id = cache'[k].id
          PROVE  cache'[i] = cache'[k]
        <3>1. cache'[i] = e \/ \E j \in 1..Len(cache) : cache'[i] = cache[j] BY <1>6, Zenon
        <3>2. cache'[k] = e \/ \E j \in 1..Len(cache) : cache'[k] = cache[j] BY <1>6, Zenon
        <3>3. \A j \in 1..Len(cache) : cache[j].id # e.id BY <1>3, <1>5, <1>8, Zenon
        <3>4. CASE cache'[i] = e BY <2>1, <3>2, <3>3, <3>4, Zenon
        <3>5. CASE cache'[k] = e BY <2>1, <3>1, <3>3, <3>5, Zenon
        <3>6. ASSUME NEW j \in 1..Len(cache), cache'[i] = cache[j],
                     NEW n \in 1..Len(cache), cache'[k] = cache[n]
              PROVE  cache'[i] = cache'[k]
            BY <1>7, <2>1, <3>6, Zenon DEF OneResult
        <3> QED BY <3>1, <3>2, <3>4, <3>5, <3>6, Zenon
    <2>2. Ran(t.cmd.id, t.result) BY <1>2, Zenon DEF TaskRecorded
    <2>3. \A k \in 1..Len(cache') : Ran(cache'[k].id, cache'[k].result)
        BY <1>5, <1>6, <1>7, <2>2, Zenon
    <2>4. OneResult(cache)' BY <2>1, Zenon DEF OneResult
    <2> QED BY <1>1, <2>3, <2>4, Zenon DEF CacheAgrees, Ran
<1>13. PICK u : /\ u = [t EXCEPT !.at = "report"]
                /\ \/ disk' = cache' /\ Replace(t, u)
                   \/ UNCHANGED disk /\ End(t)
    BY Zenon DEF RememberResult
<1>14. u.cmd = t.cmd /\ u.at = "report" /\ u.result = t.result /\ DOMAIN u = DOMAIN t
    BY <1>2, <1>13, Zenon DEF IsTask
<1>15. IsTask(u) BY <1>2, <1>3, <1>14, Zenon DEF IsTask
<1>16. TasksFit BY <1>1, <1>13, <1>14, <1>15, TaskMoves, Zenon
<1>17. OneTask' BY <1>16, Zenon DEF OneTask, TasksFit
<1>18. disk' \in Seq(Entry) BY <1>6, <1>13, Zenon DEF QueueInv, Shape
<1>19. Shape' BY <1>1, <1>6, <1>16, <1>18, Zenon DEF QueueInv, Shape, TasksFit
<1>20. DiskAgrees'
    <2>1. CASE disk' = cache'
        <3>1. OneResult(disk)' BY <1>12, <2>1, Zenon DEF CacheAgrees, OneResult
        <3>2. \A k \in 1..Len(disk') : Holds(cache', disk'[k].id, disk'[k].result)
            BY <2>1, Zenon DEF Holds, Kept
        <3>3. (\A k \in 1..Len(disk) : Ran(disk[k].id, disk[k].result))'
            BY <1>12, <2>1, Zenon DEF CacheAgrees, Ran
        <3> QED BY <3>1, <3>2, <3>3, Zenon DEF DiskAgrees, Told, Holds, Kept
    <2>2. CASE UNCHANGED disk
        BY <1>10, <2>2, Zenon DEF QueueInv, AgentInv, Recorded, DiskAgrees, OneResult, Faithful
    <2> QED BY <1>13, <2>1, <2>2, Zenon
<1>21. \A v \in tasks' : TaskRecorded(v)'
    <2>1. TaskRecorded(u)'
        <3>1. Told(u.cmd.id, u.result)' BY <1>6, <1>14, Zenon DEF Told, Holds, Kept
        <3>2. Ran(u.cmd.id, u.result)'
            BY <1>2, <1>10, <1>14, Zenon DEF TaskRecorded, Faithful
        <3> QED BY <1>14, <3>1, <3>2, Zenon DEF TaskRecorded
    <2>2. ASSUME NEW v \in tasks, v # t PROVE TaskRecorded(v)'
        <3>1. TaskRecorded(v) /\ v.cmd.id # t.cmd.id
            BY <2>2, Zenon DEF QueueInv, AgentInv, OneTask
        <3>2. v.cmd.id \notin InCache(cache) => v.cmd.id \notin InCache(cache')
            <4>1. \A k \in 1..Len(cache') :
                      cache'[k].id = t.cmd.id \/ cache'[k].id \in InCache(cache)
                BY <1>5, <1>6, <1>8, Zenon
            <4> QED BY <3>1, <4>1, Zenon DEF InCache
        <3> QED BY <1>10, <3>1, <3>2, Zenon DEF TaskRecorded, Faithful, InCache
    <2> QED BY <1>13, <2>1, <2>2, Zenon DEF Replace, End
<1>22. RanOnce'
    <2>1. t.cmd.id \in InCache(cache') BY <1>6, Zenon DEF Holds, Kept, InCache
    <2>2. ASSUME NEW i \in Ids, i # t.cmd.id, Executed(i) PROVE Executed(i)'
        BY <1>13, <2>2, Zenon DEF Executed, Replace, End
    <2>3. ASSUME NEW i \in Ids, i \notin forgotten'
          PROVE  ran'[i] <= 1 /\ (ran'[i] > 0 => i \in InCache(cache') \/ Executed(i)')
        <3>1. i \notin forgotten /\ (i \in InCache(cache) => i \in InCache(cache'))
            BY <1>1, <2>3, Zenon
        <3> QED BY <1>1, <2>1, <2>2, <3>1, Zenon DEF QueueInv, AgentInv, RanOnce
    <2> QED BY <2>3, Zenon DEF RanOnce, InCache
<1> QED BY <1>11, <1>12, <1>17, <1>19, <1>20, <1>21, <1>22, Zenon
        DEF QueueInv, AgentInv, Recorded

\* The Agent restarts: what it had not saved is lost, and known to be.
LEMMA CrashKeeps ==
    ASSUME QueueInv, Crash
    PROVE  QueueInv'
<1>1. /\ UNCHANGED rows /\ UNCHANGED net /\ UNCHANGED lastId /\ UNCHANGED prep
      /\ UNCHANGED ran /\ UNCHANGED disk /\ tasks' = {} /\ poll' = Idle /\ cache' = disk
      /\ forgotten' = forgotten \cup
           (({i \in Ids : ran[i] > 0} \cup InCache(cache)) \ InCache(disk))
    BY Zenon DEF Crash, controller
<1>2. OneResult(cache) /\ OneResult(disk)
      /\ (\A k \in 1..Len(disk) : Ran(disk[k].id, disk[k].result) /\ Told(disk[k].id, disk[k].result))
    BY Zenon DEF QueueInv, AgentInv, Recorded, CacheAgrees, DiskAgrees
<1>3. Faithful
    <2>1. \A k \in 1..Len(disk) : disk[k].id \notin forgotten => Holds(cache, disk[k].id, disk[k].result)
        BY <1>2, Zenon DEF Told
    <2>2. \A k \in 1..Len(cache') :
              cache'[k].id \in InCache(cache) /\ cache'[k].id \notin forgotten' =>
                 Holds(cache, cache'[k].id, cache'[k].result)
        BY <1>1, <2>1, Zenon
    <2>3. forgotten \subseteq forgotten' /\ InCache(cache) \ InCache(cache') \subseteq forgotten'
        BY <1>1, Zenon
    <2>4. \A i, r : Told(i, r) => Told(i, r)' BY <1>2, <2>2, <2>3, CacheChanges, Zenon
    <2>5. \A i, r : Ran(i, r) => Ran(i, r)' BY <1>1, Zenon DEF Ran
    <2> QED BY <2>4, <2>5, Zenon DEF Faithful
<1>4. ResultIsTheAgents' /\ NetAgrees' BY <1>1, <1>3, FaithfulKeeps, Zenon
<1>5. CacheAgrees' BY <1>1, <1>2, <1>3, Zenon DEF CacheAgrees, OneResult, Faithful
<1>6. DiskAgrees' BY <1>1, <1>2, <1>3, Zenon DEF DiskAgrees, OneResult, Faithful
<1>7. poll'.at = "idle" BY <1>1, Zenon DEF Idle
<1>8. OneTask' BY <1>1, <1>7, Zenon DEF OneTask
<1>9. Shape' BY <1>1, <1>7, Zenon DEF QueueInv, Shape
<1>10. RanOnce' BY <1>1, Zenon DEF QueueInv, AgentInv, RanOnce, InCache
<1> QED BY <1>1, <1>4, <1>5, <1>6, <1>8, <1>9, <1>10, Zenon DEF QueueInv, AgentInv, Recorded

---------------------------------------------------------------------------
(* The theorems.                                                           *)

\* Before the first command there is nothing to agree about.
LEMMA QueueInit ==
    ASSUME Init
    PROVE  QueueInv
<1>1. poll.at = "idle" /\ Len(cache) = 0 /\ Len(disk) = 0 BY Zenon DEF Init
<1>2. \A op \in Ops : rows[op] = NoRow /\ rows[op].state = "none" BY Zenon DEF Init, NoRow
<1>3. cache \in Seq(Entry) /\ disk \in Seq(Entry) BY DEF Init
<1>4. 0 \in 0..MaxIds /\ 0 \in Nat /\ 1..0 = {}
    BY CommandQueueAssumption DEF CommandQueueAssumption
<1>5. \A i \in Ids : ran[i] <= 1 /\ ~(ran[i] > 0) /\ ran[i] \in Nat BY DEF Init
<1>6. Shape BY <1>1, <1>2, <1>3, <1>4, <1>5, Zenon DEF Shape, Init
<1>7. OneTask BY <1>1, Zenon DEF OneTask, Init
<1>8. Recorded
    BY <1>1, <1>4, Zenon DEF Recorded, CacheAgrees, DiskAgrees, NetAgrees, OneResult, Init
<1>9. RanOnce BY <1>5, Zenon DEF RanOnce
<1>10. ResultIsTheAgents BY <1>2, Zenon DEF ResultIsTheAgents
<1> QED BY <1>6, <1>7, <1>8, <1>9, <1>10, Zenon DEF QueueInv, AgentInv, Init

\* A step that changes nothing.
LEMMA StutterQuiet ==
    ASSUME QueueInv, UNCHANGED vars
    PROVE  Quiet
BY QuietParts, Zenon DEF vars, controller, agent, history, Quiet

\* Every step of the system keeps the invariant.
LEMMA QueueStep ==
    ASSUME QueueInv, [Next]_vars
    PROVE  QueueInv'
<1>1. CASE ControllerNext
    <2>1. CASE \/ \E op \in Ops, g \in {0, epoch} : PrepareEnqueue(op, g)
               \/ PromoteControllerEpoch \/ ChangeMode
        BY <2>1, ModesQuiet, QuietKeeps, Zenon
    <2>2. CASE EnqueueAgentCommand BY <2>2, EnqueueQuiet, QuietKeeps, Zenon
    <2>3. CASE \E op \in Ops : GetAgentCommandResult(op) \/ Lapse(op) \/ GoStale(op)
        BY <2>3, ClockQuiet, QuietKeeps, Zenon
    <2>4. CASE ActivateAgentCredentialRotation BY <2>4, RotationQuiet, QuietKeeps, Zenon
    <2> QED BY <1>1, <2>1, <2>2, <2>3, <2>4, Zenon DEF ControllerNext
<1>2. CASE PollNext
    <2>1. CASE \/ ActivatePendingCredential \/ RecordControllerSuccess
               \/ BeginPoll \/ NoContent \/ PollFails
        BY <2>1, PollQuiet, QuietKeeps, Zenon
    <2>2. CASE \E op \in Ops : LeaseAgentCommand(op) BY <2>2, LeaseQuiet, QuietKeeps, Zenon
    <2>3. CASE ReceiveOffer BY <2>3, OfferQuiet, QuietKeeps, Zenon
    <2>4. CASE AckAgentCommand BY <2>4, AckQuiet, QuietKeeps, Zenon
    <2>5. CASE TakeSlot BY <2>5, TakeSlotKeeps, Zenon
    <2> QED BY <1>2, <2>1, <2>2, <2>3, <2>4, <2>5, Zenon DEF PollNext
<1>3. ASSUME NEW t \in tasks, TaskNext(t) PROVE QueueInv'
    <2>1. CASE RenewCommandLease(t) BY <2>1, RenewQuiet, QuietKeeps, Zenon
    <2>2. CASE ReuseResult(t) BY <2>2, ReuseKeeps, Zenon
    <2>3. CASE ExecuteCommand(t) BY <2>3, ExecuteKeeps, Zenon
    <2>4. CASE RememberResult(t) BY <2>4, RememberKeeps, Zenon
    <2>5. CASE ReportAccepted(t) \/ ReportUnanswered(t) BY <2>5, ReportKeeps, Zenon
    <2> QED BY <1>3, <2>1, <2>2, <2>3, <2>4, <2>5, Zenon DEF TaskNext
<1>4. CASE \E m \in net : HandleLateResult(m) BY <1>4, LateResultKeeps, Zenon
<1>5. CASE Crash BY <1>5, CrashKeeps, Zenon
<1>6. CASE UNCHANGED vars BY <1>6, StutterQuiet, QuietKeeps, Zenon
<1> QED BY <1>1, <1>2, <1>3, <1>4, <1>5, <1>6, Zenon DEF Next

\* The inductive invariant of the queue holds: one task for a delivery, and
\* one result of it wherever it is on record.
THEOREM QueueInvariant == Spec => []QueueInv
BY QueueInit, QueueStep, PTL DEF Spec

\* However often a delivery is leased again, the Agent executes it at most
\* once, unless a crash or eviction lost its result (executeAndReportCommand).
THEOREM ExecutedOnceTheorem == Spec => []ExecutedOnce
<1>1. QueueInv => ExecutedOnce BY Zenon DEF QueueInv, AgentInv, RanOnce, ExecutedOnce
<1> QED BY <1>1, QueueInvariant, PTL

\* A row says succeeded only for a delivery that ran, and records the result
\* the Agent keeps, through lost, repeated and late requests
\* (FinishAgentCommand).
THEOREM ResultTheorem == Spec => []ResultIsTheAgents
<1>1. QueueInv => ResultIsTheAgents BY Zenon DEF QueueInv
<1> QED BY <1>1, QueueInvariant, PTL

---------------------------------------------------------------------------
(* Terminal rows.                                                          *)

\* What a step may do to a terminal row.
RetriesOnly ==
    \A op \in Ops : rows[op].state \in Terminal /\ rows'[op] # rows[op] =>
        /\ rows[op].state # "succeeded" /\ op \in RetryOps
        /\ rows'[op].state = "queued" /\ rows'[op].gen = rows[op].gen
        /\ rows'[op].id > lastId

\* A step that changes one row, which is not terminal.
LEMMA OpenRowMoves ==
    ASSUME Shape, NEW op, rows[op].state \notin Terminal, NEW row, SetRow(op, row)
    PROVE  RetriesOnly
BY Zenon DEF Shape, SetRow, RetriesOnly

\* EnqueueAgentCommand retries only what failed or expired in the active
\* generation, and only what may be retried.
LEMMA EnqueueRetries ==
    ASSUME QueueInv, EnqueueAgentCommand
    PROVE  RetriesOnly
<1>1. PICK p \in prep :
        LET row == rows[p.op]
            accepted == /\ p.expected \in {0, epoch}
                        /\ row = NoRow \/ Requeues(p, row)
        IN IF accepted
           THEN SetRow(p.op, [state |-> "queued", id |-> DeliveryId(p.op),
                              gen |-> epoch, key |-> p.key,
                              born |-> IF row = NoRow THEN lastId + 1 ELSE row.born,
                              live |-> FALSE, fresh |-> TRUE, result |-> "none"])
           ELSE UNCHANGED rows
    BY Zenon DEF EnqueueAgentCommand
<1>2. CASE UNCHANGED rows BY <1>2, Zenon DEF RetriesOnly
<1>3. CASE ~UNCHANGED rows
    <2>1. rows[p.op] = NoRow \/ Requeues(p, rows[p.op]) BY <1>1, <1>3, Zenon
    <2>2. PICK row : row = [state |-> "queued", id |-> DeliveryId(p.op),
                            gen |-> epoch, key |-> p.key,
                            born |-> IF rows[p.op] = NoRow THEN lastId + 1 ELSE rows[p.op].born,
                            live |-> FALSE, fresh |-> TRUE, result |-> "none"]
        BY Zenon
    <2>3. SetRow(p.op, row) BY <1>1, <1>3, <2>2, Zenon
    <2>4. row.state = "queued" /\ row.gen = epoch /\ row.id = lastId + 1
        BY <2>2, Zenon DEF DeliveryId
    <2>5. lastId \in Nat BY CommandQueueAssumption DEF QueueInv, Shape, CommandQueueAssumption
    <2>6. row.id > lastId BY <2>4, <2>5
    <2>7. CASE rows[p.op] = NoRow
        <3>1. rows[p.op].state \notin Terminal BY <2>7 DEF NoRow, Terminal
        <3> QED BY <2>3, <3>1, OpenRowMoves, Zenon DEF QueueInv
    <2>8. CASE Requeues(p, rows[p.op])
        <3>1. /\ rows[p.op].gen = epoch /\ p.op \in RetryOps
              /\ rows[p.op].state \in {"failed", "expired"}
            BY <2>8, Zenon DEF Requeues
        <3>2. rows[p.op].state # "succeeded" BY <3>1, Zenon
        <3>3. \A op \in Ops : rows'[op] = IF op = p.op THEN row ELSE rows[op]
            BY <2>3, Zenon DEF QueueInv, Shape, SetRow
        <3> QED BY <2>4, <2>6, <3>1, <3>2, <3>3, Zenon DEF RetriesOnly
    <2> QED BY <2>1, <2>7, <2>8, Zenon
<1> QED BY <1>2, <1>3, Zenon

\* A result finishes only what is in flight.
LEMMA FinishRetries ==
    ASSUME NEW m, FinishAgentCommand(m)
    PROVE  RetriesOnly
<1>1. \A op \in Ops : rows'[op] # rows[op] => rows[op].state \in InFlight
    BY Zenon DEF FinishAgentCommand, Finishes
<1>2. \A s \in InFlight : s \notin Terminal BY Zenon DEF InFlight, Terminal
<1> QED BY <1>1, <1>2, Zenon DEF RetriesOnly

\* Every step leaves terminal rows alone but for a retry.
LEMMA RetriesStep ==
    ASSUME QueueInv, [Next]_vars
    PROVE  RetriesOnly
<1> DEFINE Unfinished == {"queued"} \cup InFlight
<1>1. \A s \in Unfinished : s \notin Terminal BY Zenon DEF InFlight, Terminal
<1>2. UNCHANGED rows => RetriesOnly BY Zenon DEF RetriesOnly
<1>3. ASSUME NEW op, rows[op].state \in Unfinished, NEW row, SetRow(op, row)
      PROVE  RetriesOnly
    BY <1>1, <1>3, OpenRowMoves, Zenon DEF QueueInv
<1>4. CASE ControllerNext
    <2>1. CASE \/ \E op \in Ops, g \in {0, epoch} : PrepareEnqueue(op, g)
               \/ PromoteControllerEpoch \/ ChangeMode
        BY <1>2, <2>1, Zenon DEF PrepareEnqueue, PromoteControllerEpoch, ChangeMode
    <2>2. CASE EnqueueAgentCommand BY <2>2, EnqueueRetries, Zenon
    <2>3. CASE \E op \in Ops : GetAgentCommandResult(op) \/ Lapse(op) \/ GoStale(op)
        BY <1>3, <2>3, Zenon DEF GetAgentCommandResult, Lapse, GoStale
    <2>4. CASE ActivateAgentCredentialRotation
        <3>1. \A op \in Ops : rows'[op] = ExpireUnfinished(rows[op])
            BY <2>4, Zenon DEF ActivateAgentCredentialRotation
        <3>2. \A op \in Ops : rows'[op] # rows[op] => rows[op].state \in Unfinished
            BY <3>1, Zenon DEF ExpireUnfinished
        <3> QED BY <1>1, <3>2, Zenon DEF RetriesOnly
    <2> QED BY <1>4, <2>1, <2>2, <2>3, <2>4, Zenon DEF ControllerNext
<1>5. CASE PollNext
    <2>1. CASE \/ ActivatePendingCredential \/ RecordControllerSuccess \/ BeginPoll
               \/ NoContent \/ PollFails \/ ReceiveOffer \/ TakeSlot
        BY <1>2, <2>1, Zenon DEF ActivatePendingCredential, RecordControllerSuccess, BeginPoll,
                                NoContent, PollFails, ReceiveOffer, TakeSlot, controller
    <2>2. CASE \E op \in Ops : LeaseAgentCommand(op)
        BY <1>3, <2>2, Zenon DEF LeaseAgentCommand, Leasable
    <2>3. CASE AckAgentCommand
        BY <1>3, <2>3, Zenon DEF AckAgentCommand, Acknowledges, RunningRow
    <2> QED BY <1>5, <2>1, <2>2, <2>3, Zenon DEF PollNext
<1>6. ASSUME NEW t \in tasks, TaskNext(t) PROVE RetriesOnly
    <2>1. CASE RenewCommandLease(t)
        BY <1>3, <2>1, Zenon DEF RenewCommandLease, Acknowledges, RunningRow
    <2>2. CASE ReuseResult(t) \/ ExecuteCommand(t) \/ RememberResult(t) \/ ReportUnanswered(t)
        BY <1>2, <2>2, Zenon DEF ReuseResult, ExecuteCommand, RememberResult, ReportUnanswered,
                                controller
    <2>3. CASE ReportAccepted(t) BY <2>3, FinishRetries, Zenon DEF ReportAccepted
    <2> QED BY <1>6, <2>1, <2>2, <2>3, Zenon DEF TaskNext
<1>7. CASE \E m \in net : HandleLateResult(m)
    BY <1>7, FinishRetries, Zenon DEF HandleLateResult
<1>8. CASE Crash \/ UNCHANGED vars BY <1>2, <1>8, Zenon DEF Crash, vars, controller
<1> QED BY <1>4, <1>5, <1>6, <1>7, <1>8, Zenon DEF Next

\* A terminal row is touched only to make a failed or expired retryable
\* command of the same generation visible under a delivery id never used
\* (EnqueueAgentCommand, FinishAgentCommand, the expiry of a rotation).
THEOREM TerminalTheorem == Spec => TerminalIsFinal
<1>1. QueueInv /\ [Next]_vars => [RetriesOnly]_vars BY RetriesStep, Zenon
<1>2. Spec => [][RetriesOnly]_vars BY <1>1, QueueInvariant, PTL DEF Spec
<1>3. TerminalIsFinal <=> [][RetriesOnly]_vars BY Zenon DEF TerminalIsFinal, RetriesOnly
<1> QED BY <1>2, <1>3, PTL

------------------------------------------------------------------------------
(* Recovery, where a user may write when a node has failed or its data has: *)
(* for any compute nodes and any number of writes, logins, mishaps, faults, *)
(* restores, backups and attempts.                                          *)

\* The type invariant by who writes what: the disks of the nodes,
DiskType == online \subseteq AllNodes /\ data \in [AllNodes -> Trees]

\* ... the rows of the user and of the replicas,
ReplicaType ==
    /\ home \in Computes
    /\ rep \in [Computes -> RepStates]
    /\ copy \in [AllNodes -> Trees \cup {NoTree}]
    /\ acct \in [Computes -> {"none", "pending", "active", "stale", "error"}]

\* ... the lease and the session with what was written and given up,
SessionType ==
    /\ lease \in [state : {"active", "ended"}, at : Computes]
    /\ session \in Computes \cup {Nobody}
    /\ wrote \in 0..MaxWrites
    /\ waived \in Trees

\* ... the protection row, where a restore always has a point to restore,
ProtType ==
    /\ prot \in [state : {"protected", "temporary", "unprotected",
                          "takeover_available", "restore_required", "unavailable"},
                 point : Trees \cup {NoTree}]
    /\ prot.state = "restore_required" => prot.point # NoTree

\* ... the fault, which has a number once there is one, and its commands,
FaultType ==
    /\ fault \in [seq : 0..MaxFaults, node : Computes, gen : 0..LastGen, relgen : 0..LastGen,
                  state : {"none", "reported", "freezing", "retry_wait", "resolved",
                           "recovery_available", "recovery_unavailable"},
                  release : {"none", "pending", "releasing", "retry_wait", "released"}]
    /\ fault.state = "none" <=> fault.seq = 0
    /\ claimed \subseteq Op
    /\ cmds \in [Op -> {"none", "queued", "done"}]
    /\ frozen \subseteq Computes /\ tomb \subseteq 1..MaxFaults

\* ... the restore, whose worker only runs while it is open and has attempts
\* left,
RestoreType ==
    /\ wf \in [state : Closed \cup {"scheduled", "retry_wait", "transferring",
                                    "verifying", "publishing"},
               target : Computes, point : Trees, gen : 0..LastGen,
               attempt : 0..RetryMax, cap : {"prepared", "revoked", "consumed"},
               prepare : {"none", "ok"}]
    /\ pc \in {"idle", "account", "rotate", "prepare", "start", "receipt"}
    /\ wf.state \in Closed => pc = "idle"
    /\ wf.state \notin Closed => wf.attempt < RetryMax
    /\ run \in {"none", "queued", "running", "ok", "failed"}
    /\ xfer \in {"none", "prepared", "consumed", "published", "failed"}
    /\ recv \in {"none", "verified", "publishing"}
    /\ late \in [Computes -> Trees \cup {NoTree}]

\* ... the backup,
SyncType ==
    sync \in [state : {"none", "sent", "publishing", "late", "published"},
              src : Computes, dst : AllNodes, tree : Trees]

\* ... and the bounds: every new generation is a mishap.
WorldType ==
    /\ gen \in 1..LastGen
    /\ spent \in [{"logins", "mishaps", "restores", "backups"} -> Nat]
    /\ gen <= 1 + spent["mishaps"] /\ spent["mishaps"] <= MaxMishaps

Types == /\ DiskType /\ ReplicaType /\ SessionType /\ ProtType /\ FaultType
         /\ RestoreType /\ SyncType /\ WorldType

\* The fault has been reported and not been resolved.
FaultOpen == fault.state \notin {"none", "resolved"}

\* The gates.  Only the latest fault has one.  Every earlier fault is in the
\* tomb, so that its late commands change nothing; the latest is there only
\* after a release that its resolution has allowed, and until then a freeze
\* that was carried out is in force.
Gates ==
    /\ frozen \subseteq {fault.node}
    /\ frozen # {} => fault.seq \notin tomb /\ fault.state # "none"
    /\ \A s \in tomb : s <= fault.seq
    /\ \A s \in 1..MaxFaults : s < fault.seq => s \in tomb
    /\ \A op \in Op : op[2] > fault.seq => cmds[op] = "none"
    /\ \A op \in Op : op[1] = "release" /\ op[2] = fault.seq =>
          /\ cmds[op] # "none" => fault.state = "resolved"
          /\ cmds[op] = "done" => fault.seq \in tomb
    /\ \A op \in Op : op[1] = "freeze" /\ op[2] = fault.seq /\ cmds[op] = "done"
                        /\ fault.seq \notin tomb => fault.node \in frozen
    /\ fault.seq \in tomb => fault.state = "resolved"
    /\ fault.release = "released" => fault.seq \in tomb
    /\ fault.state \in {"recovery_available", "recovery_unavailable"} => fault.node \in frozen

\* The writers.  The home does not move while a fault is unresolved, and a
\* session without a lease is one that the freeze has yet to close.
Unfrozen ==
    /\ fault.state \in {"reported", "freezing", "retry_wait"}
    /\ \A op \in Op : op[1] = "freeze" /\ op[2] = fault.seq => cmds[op] # "done"

Writers ==
    /\ FaultOpen => home = fault.node
    /\ session # Nobody => session = home /\ (lease.state = "active" \/ Unfrozen)

\* The restores.  While one is open only its own target's receive writes to the
\* target's tree: a backup that came late, and the exchange of an earlier restore,
\* have to be through with it before.
Landed == xfer = "published" \/ run = "ok"

Restores ==
    wf.state \notin Closed =>
        /\ sync.state \in {"none", "late"}
        /\ rep[wf.target] = "syncing" /\ home # wf.target
        /\ recv = "publishing" \/ Landed => ~(sync.state = "late" /\ sync.dst = wf.target)
        /\ recv = "publishing" \/ Landed => late[wf.target] = NoTree
        /\ Landed => data[wf.target] = wf.point

RecoveryInv == Types /\ Gates /\ Writers /\ Restores

------------------------------------------------------------------------------
(* Types: what the steps have in common. *)

\* The types of the parts are those of the whole.
LEMMA TypesOK == Types => RecoveryTypeOK
  BY Zenon
  DEF Types, RecoveryTypeOK, DiskType, ReplicaType, SessionType, ProtType, FaultType,
      RestoreType, SyncType, WorldType

\* The bounds are numbers.
LEMMA Bounds ==
  /\ MaxMishaps \in Nat /\ LastGen \in Nat /\ MaxFaults \in Nat /\ MaxWrites \in Nat
  /\ RetryMax \in Nat \ {0}
  /\ 0 \in 0..LastGen /\ 1 \in 1..LastGen /\ 0 \in 0..MaxFaults /\ 0 \in 0..MaxWrites
  /\ 0 \in 0..RetryMax /\ LastGen = 1 + MaxMishaps
  BY RecoveryAssumption DEF RecoveryAssumption, LastGen

\* Types that no step touches.
LEMMA TypesStay ==
  ASSUME Types
  PROVE  /\ online' = online /\ data' = data => DiskType'
         /\ home' = home /\ rep' = rep /\ copy' = copy /\ acct' = acct => ReplicaType'
         /\ lease' = lease /\ session' = session /\ wrote' = wrote /\ waived' = waived
              => SessionType'
         /\ prot' = prot => ProtType'
         /\ fault' = fault /\ claimed' = claimed /\ cmds' = cmds /\ frozen' = frozen
              /\ tomb' = tomb => FaultType'
         /\ wf' = wf /\ pc' = pc /\ run' = run /\ xfer' = xfer /\ recv' = recv /\ late' = late
              => RestoreType'
         /\ sync' = sync => SyncType'
         /\ gen' = gen /\ spent' = spent => WorldType'
  <1>1. online' = online /\ data' = data => DiskType'
    BY Zenon DEF Types, DiskType
  <1>2. home' = home /\ rep' = rep /\ copy' = copy /\ acct' = acct => ReplicaType'
    BY Zenon DEF Types, ReplicaType
  <1>3. lease' = lease /\ session' = session /\ wrote' = wrote /\ waived' = waived
          => SessionType'
    BY Zenon DEF Types, SessionType
  <1>4. prot' = prot => ProtType'
    BY Zenon DEF Types, ProtType
  <1>5. fault' = fault /\ claimed' = claimed /\ cmds' = cmds /\ frozen' = frozen
          /\ tomb' = tomb => FaultType'
    BY Zenon DEF Types, FaultType
  <1>6. wf' = wf /\ pc' = pc /\ run' = run /\ xfer' = xfer /\ recv' = recv /\ late' = late
          => RestoreType'
    BY Zenon DEF Types, RestoreType
  <1>7. sync' = sync => SyncType'
    BY Zenon DEF Types, SyncType
  <1>8. gen' = gen /\ spent' = spent => WorldType'
    BY Zenon DEF Types, WorldType
  <1> QED BY <1>1, <1>2, <1>3, <1>4, <1>5, <1>6, <1>7, <1>8, Zenon

\* Parts of the invariant that no step touches.
LEMMA InvStays ==
  ASSUME RecoveryInv
  PROVE  /\ fault' = fault /\ cmds' = cmds /\ frozen' = frozen /\ tomb' = tomb => Gates'
         /\ fault' = fault /\ cmds' = cmds /\ home' = home /\ session' = session
              /\ lease' = lease => Writers'
         /\ wf' = wf /\ run' = run /\ xfer' = xfer /\ recv' = recv /\ late' = late /\ sync' = sync
              /\ rep' = rep /\ home' = home /\ data' = data => Restores'
  BY ZenonT(60) DEF RecoveryInv, Gates, Writers, FaultOpen, Unfrozen, Restores, Landed

\* What a step uses up leaves room for the generations.
LEMMA SpendWorld ==
  ASSUME Types, gen' = gen,
         \/ Spend("mishaps", MaxMishaps) \/ spent' = spent
         \/ \E what \in {"logins", "restores", "backups"} : \E max : Spend(what, max)
  PROVE  WorldType'
  <1>0. WorldType
    BY Zenon DEF Types
  <1>1. CASE spent' = spent
    BY <1>1, TypesStay, Zenon
  <1>2. CASE Spend("mishaps", MaxMishaps)
    <2>1. /\ spent["mishaps"] \in Nat /\ gen \in Nat /\ gen <= 1 + spent["mishaps"]
          /\ spent["mishaps"] < MaxMishaps
      BY <1>0, <1>2 DEF WorldType, Spend
    <2>2. /\ gen <= 1 + (spent["mishaps"] + 1) /\ spent["mishaps"] + 1 <= MaxMishaps
          /\ spent["mishaps"] + 1 \in Nat
      BY <2>1, Bounds
    <2>3. spent' = [spent EXCEPT !["mishaps"] = spent["mishaps"] + 1]
      BY <1>2 DEF Spend
    <2>4. /\ spent' \in [{"logins", "mishaps", "restores", "backups"} -> Nat]
          /\ spent'["mishaps"] = spent["mishaps"] + 1
      BY <1>0, <2>2, <2>3 DEF WorldType
    <2> QED BY <1>0, <2>2, <2>4, Zenon DEF WorldType
  <1>3. ASSUME NEW what \in {"logins", "restores", "backups"}, NEW max, Spend(what, max)
        PROVE  WorldType'
    <2>1. spent[what] + 1 \in Nat
      BY <1>0 DEF WorldType
    <2>2. spent' = [spent EXCEPT ![what] = spent[what] + 1]
      BY <1>3 DEF Spend
    <2>3. /\ spent' \in [{"logins", "mishaps", "restores", "backups"} -> Nat]
          /\ spent'["mishaps"] = spent["mishaps"]
      BY <1>0, <2>1, <2>2 DEF WorldType
    <2> QED BY <1>0, <2>3, Zenon DEF WorldType
  <1> QED BY <1>1, <1>2, <1>3, Zenon

\* The projected protection has a point to restore when it asks for a restore.
LEMMA DesiredType ==
  ASSUME DiskType, NEW h, NEW r, NEW a, NEW c \in [AllNodes -> Trees \cup {NoTree}]
  PROVE  /\ Desired(h, r, a, c) \in
              [state : {"protected", "temporary", "unprotected", "takeover_available",
                        "restore_required", "unavailable"},
               point : Trees \cup {NoTree}]
         /\ Desired(h, r, a, c).state = "restore_required" =>
              Desired(h, r, a, c).point # NoTree
  <1> DEFINE hot   == Hot(r, a, c)
             ready == AuthoritativeReady(h, r)
             arch  == Archived(c)
             d     == Desired(h, r, a, c)
  <1>1. hot \subseteq AllNodes /\ Storage \in AllNodes
    BY Zenon DEF Hot, AllNodes
  <1>2. hot # {} => (CHOOSE n \in hot : TRUE) \in hot
    BY Zenon
  <1>3. d.point \in Trees \cup {NoTree}
    <2>1. d.point = IF hot # {} /\ (~ready \/ ~arch) THEN c[CHOOSE n \in hot : TRUE]
                    ELSE IF arch THEN c[Storage] ELSE NoTree
      BY Zenon DEF Desired
    <2> HIDE DEF hot, ready, arch
    <2> QED BY <1>1, <1>2, <2>1, Zenon
  <1>4. /\ ready /\ arch => d.state = "protected"
        /\ ready /\ ~arch /\ hot # {} => d.state = "temporary"
        /\ ready /\ ~arch /\ hot = {} => d.state = "unprotected"
        /\ ~ready /\ hot # {} => d.state = "takeover_available"
        /\ ~ready /\ hot = {} /\ arch => d.state = "restore_required" /\ d.point = c[Storage]
        /\ ~ready /\ hot = {} /\ ~arch => d.state = "unavailable"
    BY DEF Desired
  <1>5. arch => c[Storage] # NoTree
    BY Zenon DEF Archived
  <1>6. d \in [state : {d.state}, point : {d.point}]
    BY DEF Desired
  <1> HIDE DEF hot, ready, arch, d
  <1>7. /\ d.state \in {"protected", "temporary", "unprotected", "takeover_available",
                        "restore_required", "unavailable"}
        /\ d.state = "restore_required" => d.point # NoTree
    BY <1>4, <1>5
  <1>8. d \in [state : {"protected", "temporary", "unprotected", "takeover_available",
                        "restore_required", "unavailable"},
               point : Trees \cup {NoTree}]
    BY <1>3, <1>6, <1>7
  <1> QED BY <1>7, <1>8 DEF d

------------------------------------------------------------------------------
(* The first state. *)

\* The invariant holds in the first state.
LEMMA InitRecoveryInv == RecoveryInit => RecoveryInv
  <1> SUFFICES ASSUME RecoveryInit PROVE RecoveryInv
    OBVIOUS
  <1>0. /\ online = AllNodes /\ data = [n \in AllNodes |-> {}] /\ home = First
        /\ lease = [state |-> "ended", at |-> First]
        /\ session = Nobody /\ wrote = 0 /\ waived = {}
        /\ prot = [state |-> "protected", point |-> {}]
        /\ fault = [seq |-> 0, node |-> First, gen |-> 0, relgen |-> 0, state |-> "none",
                    release |-> "none"]
        /\ claimed = {} /\ cmds = [op \in Op |-> "none"] /\ frozen = {} /\ tomb = {}
        /\ wf = [state |-> "none", target |-> First, point |-> {}, gen |-> 0,
                 attempt |-> 0, cap |-> "revoked", prepare |-> "none"]
        /\ pc = "idle" /\ run = "none" /\ xfer = "none" /\ recv = "none"
        /\ late = [n \in Computes |-> NoTree]
        /\ sync = [state |-> "none", src |-> First, dst |-> Storage, tree |-> {}]
        /\ gen = 1 /\ spent = [b \in {"logins", "mishaps", "restores", "backups"} |-> 0]
    BY Zenon DEF RecoveryInit
  <1>1. /\ First \in Computes /\ Storage \in AllNodes /\ {} \in Trees
    BY RecoveryAssumption DEF RecoveryAssumption, AllNodes, Trees
  <1>2. DiskType
    BY <1>0, <1>1 DEF DiskType
  <1>3. ReplicaType
    <2>1. PICK hot \in SUBSET (Computes \ {First}) :
            /\ rep = [n \in Computes |-> IF n = First THEN "home"
                                         ELSE IF n \in hot THEN "hot" ELSE "none"]
            /\ copy = [n \in AllNodes |-> IF n \in hot \cup {Storage} THEN {} ELSE NoTree]
            /\ acct = [n \in Computes |->
                         IF n \in hot \cup {First} THEN "active" ELSE "none"]
      BY Zenon DEF RecoveryInit
    <2> QED BY <1>0, <1>1, <2>1 DEF ReplicaType, RepStates
  <1>4. SessionType
    BY <1>0, <1>1, Bounds DEF SessionType
  <1>5. ProtType
    BY <1>0, <1>1 DEF ProtType
  <1>6. FaultType
    BY <1>0, <1>1, Bounds DEF FaultType
  <1>7. RestoreType
    BY <1>0, <1>1, Bounds DEF RestoreType, Closed
  <1>8. SyncType
    BY <1>0, <1>1 DEF SyncType
  <1>9. WorldType
    BY <1>0, Bounds DEF WorldType
  <1>10. Gates
    <2>1. \A op \in Op : op[2] \in 1..MaxFaults /\ cmds[op] = "none"
      BY <1>0 DEF Op
    <2> QED BY <1>0, <2>1, Bounds DEF Gates
  <1>11. Writers
    BY <1>0 DEF Writers, FaultOpen
  <1>12. Restores
    BY <1>0 DEF Restores, Closed
  <1> QED BY <1>2, <1>3, <1>4, <1>5, <1>6, <1>7, <1>8, <1>9, <1>10, <1>11, <1>12, Zenon
          DEF RecoveryInv, Types

------------------------------------------------------------------------------
(* The user, the nodes and the Controller processes. *)

\* A step that leaves an open restore and what it relies on alone.
LEMMA RestoresFrame ==
  ASSUME RecoveryInv, wf' = wf, run' = run, xfer' = xfer, recv' = recv, late' = late,
         wf.state \notin Closed =>
           /\ home' # wf.target
           /\ sync' = sync \/ sync'.state = "none"
           /\ rep'[wf.target] = rep[wf.target]
           /\ Landed => data'[wf.target] = data[wf.target]
  PROVE  Restores'
  <1> SUFFICES ASSUME wf'.state \notin Closed
               PROVE  /\ sync'.state \in {"none", "late"}
                      /\ rep'[wf'.target] = "syncing" /\ home' # wf'.target
                      /\ recv' = "publishing" \/ Landed' =>
                           /\ ~(sync'.state = "late" /\ sync'.dst = wf'.target)
                           /\ late'[wf'.target] = NoTree
                      /\ Landed' => data'[wf'.target] = wf'.point
    BY Zenon DEF Restores
  <1>1. wf.state \notin Closed
    BY Zenon
  <1>2. /\ sync.state \in {"none", "late"}
        /\ rep[wf.target] = "syncing"
        /\ recv = "publishing" \/ Landed => ~(sync.state = "late" /\ sync.dst = wf.target)
        /\ recv = "publishing" \/ Landed => late[wf.target] = NoTree
        /\ Landed => data[wf.target] = wf.point
    BY <1>1, Zenon DEF RecoveryInv, Restores
  <1>3. Landed' <=> Landed
    BY Zenon DEF Landed
  <1>4. sync'.state = "none" => sync'.state # "late"
    OBVIOUS
  <1> QED BY <1>1, <1>2, <1>3, <1>4, Zenon

\* ReconcileProtectionStates keeps the invariant.
LEMMA ReconcileKeeps ==
  ASSUME RecoveryInv, ReconcileProtectionStates
  PROVE  RecoveryInv'
  <1>1. /\ online' = online /\ data' = data /\ home' = home /\ rep' = rep /\ copy' = copy
        /\ acct' = acct /\ lease' = lease /\ session' = session /\ wrote' = wrote
        /\ waived' = waived /\ fault' = fault /\ claimed' = claimed /\ cmds' = cmds
        /\ frozen' = frozen /\ tomb' = tomb /\ wf' = wf /\ pc' = pc /\ run' = run
        /\ xfer' = xfer /\ recv' = recv /\ late' = late /\ sync' = sync /\ gen' = gen /\ spent' = spent
    BY Zenon DEF ReconcileProtectionStates, faults, restore
  <1>2. ProtType'
    <2>1. /\ DiskType /\ copy \in [AllNodes -> Trees \cup {NoTree}]
          /\ prot' = Desired(home, rep, acct, copy)
      BY Zenon DEF RecoveryInv, Types, ReplicaType, ReconcileProtectionStates
    <2> QED BY <2>1, DesiredType, Zenon DEF ProtType
  <1>3. Types
    BY Zenon DEF RecoveryInv
  <1>4. Types'
    BY <1>1, <1>2, <1>3, TypesStay, Zenon DEF Types
  <1> QED BY <1>1, <1>4, InvStays, Zenon DEF RecoveryInv

\* NodeDown and NodeUp keep it.
LEMMA NodesKeep ==
  ASSUME RecoveryInv, NEW n \in AllNodes, NodeDown(n) \/ NodeUp(n)
  PROVE  RecoveryInv'
  <1>1. /\ data' = data /\ home' = home /\ rep' = rep /\ copy' = copy
        /\ acct' = acct /\ lease' = lease /\ session' = session /\ wrote' = wrote
        /\ waived' = waived /\ prot' = prot /\ fault' = fault /\ claimed' = claimed
        /\ cmds' = cmds /\ frozen' = frozen /\ tomb' = tomb /\ wf' = wf /\ pc' = pc
        /\ run' = run /\ xfer' = xfer /\ recv' = recv /\ late' = late /\ sync' = sync /\ gen' = gen
        /\ Spend("mishaps", MaxMishaps) \/ spent' = spent
        /\ online' = online \ {n} \/ online' = online \cup {n}
    BY Zenon DEF NodeDown, NodeUp, users, faults, restore
  <1>2. Types
    BY Zenon DEF RecoveryInv
  <1>3. DiskType'
    BY <1>1, <1>2 DEF Types, DiskType
  <1>4. WorldType'
    BY <1>1, <1>2, SpendWorld, Zenon
  <1>5. Types'
    BY <1>1, <1>2, <1>3, <1>4, TypesStay, Zenon DEF Types
  <1> QED BY <1>1, <1>5, InvStays, Zenon DEF RecoveryInv

\* Promote keeps it: the bound of the mishaps is that of the generations.
LEMMA PromoteKeeps ==
  ASSUME RecoveryInv, Promote
  PROVE  RecoveryInv'
  <1>1. /\ online' = online /\ data' = data /\ home' = home /\ rep' = rep /\ copy' = copy
        /\ acct' = acct /\ lease' = lease /\ session' = session /\ wrote' = wrote
        /\ waived' = waived /\ prot' = prot /\ fault' = fault /\ claimed' = claimed
        /\ cmds' = cmds /\ frozen' = frozen /\ tomb' = tomb /\ wf' = wf /\ pc' = pc
        /\ run' = run /\ xfer' = xfer /\ recv' = recv /\ late' = late /\ sync' = sync
    BY Zenon DEF Promote, users, faults, restore
  <1>2. Types
    BY Zenon DEF RecoveryInv
  <1>3. WorldType'
    <2>1. /\ spent' = [spent EXCEPT !["mishaps"] = spent["mishaps"] + 1]
          /\ spent["mishaps"] < MaxMishaps /\ gen' = gen + 1
      BY DEF Promote, Spend
    <2>2. /\ spent \in [{"logins", "mishaps", "restores", "backups"} -> Nat]
          /\ gen \in 1..LastGen /\ gen <= 1 + spent["mishaps"]
      BY <1>2, Zenon DEF Types, WorldType
    <2>3. /\ spent' \in [{"logins", "mishaps", "restores", "backups"} -> Nat]
          /\ spent'["mishaps"] = spent["mishaps"] + 1
      BY <2>1, <2>2
    <2>4. /\ gen' \in 1..LastGen /\ gen' <= 1 + spent'["mishaps"]
          /\ spent'["mishaps"] <= MaxMishaps
      BY <2>1, <2>2, <2>3, Bounds
    <2> QED BY <2>3, <2>4, Zenon DEF WorldType
  <1>4. Types'
    BY <1>1, <1>2, <1>3, TypesStay, Zenon DEF Types
  <1> QED BY <1>1, <1>4, InvStays, Zenon DEF RecoveryInv

\* Restart keeps it.
LEMMA RestartKeeps ==
  ASSUME RecoveryInv, Restart
  PROVE  RecoveryInv'
  <1>1. /\ online' = online /\ data' = data /\ home' = home /\ rep' = rep /\ copy' = copy
        /\ acct' = acct /\ lease' = lease /\ session' = session /\ wrote' = wrote
        /\ waived' = waived /\ prot' = prot /\ fault' = fault
        /\ cmds' = cmds /\ frozen' = frozen /\ tomb' = tomb /\ wf' = wf
        /\ run' = run /\ xfer' = xfer /\ recv' = recv /\ late' = late /\ sync' = sync /\ gen' = gen
        /\ Spend("mishaps", MaxMishaps) /\ claimed' = {} /\ pc' = "idle"
    BY Zenon DEF Restart, users
  <1>2. Types
    BY Zenon DEF RecoveryInv
  <1>3. WorldType'
    BY <1>1, <1>2, SpendWorld, Zenon
  <1>4. FaultType'
    BY <1>1, <1>2, Zenon DEF Types, FaultType
  <1>5. RestoreType'
    BY <1>1, <1>2, ZenonT(60) DEF Types, RestoreType
  <1>6. Types'
    BY <1>1, <1>2, <1>3, <1>4, <1>5, TypesStay, Zenon DEF Types
  <1> QED BY <1>1, <1>6, InvStays, Zenon DEF RecoveryInv

\* Login keeps it: the session is at the home, and a backup that it stops was
\* not there beside a restore.
LEMMA LoginKeeps ==
  ASSUME RecoveryInv, Login
  PROVE  RecoveryInv'
  <1>1. /\ online' = online /\ data' = data /\ home' = home /\ rep' = rep /\ copy' = copy
        /\ acct' = acct /\ wrote' = wrote /\ waived' = waived /\ prot' = prot
        /\ fault' = fault /\ claimed' = claimed /\ cmds' = cmds /\ frozen' = frozen
        /\ tomb' = tomb /\ wf' = wf /\ pc' = pc /\ run' = run /\ xfer' = xfer
        /\ recv' = recv /\ late' = late /\ gen' = gen
        /\ session' = home /\ lease' = [state |-> "active", at |-> home]
        /\ Spend("logins", MaxLogins)
        /\ sync' = IF sync.state = "none" \/ sync.src # home THEN sync
                   ELSE [sync EXCEPT !.state = IF @ \in {"publishing", "late"} THEN "late"
                                               ELSE "none"]
    BY Zenon DEF Login, AbortOnLogin, faults, restore
  <1>2. Types
    BY Zenon DEF RecoveryInv
  <1>3. SessionType'
    BY <1>1, <1>2 DEF Types, SessionType, ReplicaType
  <1>4. SyncType'
    BY <1>1, <1>2 DEF Types, SyncType
  <1>5. WorldType'
    BY <1>1, <1>2, SpendWorld, Zenon
  <1>6. Types'
    BY <1>1, <1>2, <1>3, <1>4, <1>5, TypesStay, Zenon DEF Types
  <1>7. Writers'
    <2>1. lease'.state = "active"
      BY <1>1
    <2>2. FaultOpen => home = fault.node
      BY Zenon DEF RecoveryInv, Writers
    <2>3. FaultOpen' <=> FaultOpen
      BY <1>1, Zenon DEF FaultOpen
    <2> QED BY <1>1, <2>1, <2>2, <2>3, Zenon DEF Writers
  <1>8. Restores'
    <2>1. wf.state \notin Closed => sync.state \in {"none", "late"} /\ home # wf.target
      BY Zenon DEF RecoveryInv, Restores
    <2>2. sync.state \in {"none", "late"} => sync' = sync
      BY <1>1, <1>2 DEF Types, SyncType
    <2> QED BY <1>1, <2>1, <2>2, RestoresFrame, Zenon
  <1> QED BY <1>1, <1>6, <1>7, <1>8, InvStays, Zenon DEF RecoveryInv

\* Write keeps it: it is at the home, where no restore goes.
LEMMA WriteKeeps ==
  ASSUME RecoveryInv, Write
  PROVE  RecoveryInv'
  <1>1. /\ online' = online /\ home' = home /\ rep' = rep /\ copy' = copy
        /\ acct' = acct /\ lease' = lease /\ session' = session /\ waived' = waived
        /\ prot' = prot /\ fault' = fault /\ claimed' = claimed /\ cmds' = cmds
        /\ frozen' = frozen /\ tomb' = tomb /\ wf' = wf /\ pc' = pc /\ run' = run
        /\ xfer' = xfer /\ recv' = recv /\ late' = late /\ sync' = sync /\ gen' = gen /\ spent' = spent
        /\ session # Nobody /\ wrote < MaxWrites /\ wrote' = wrote + 1
        /\ data' = [data EXCEPT ![session] = data[session] \cup {wrote + 1}]
    BY Zenon DEF Write, faults, restore
  <1>2. Types
    BY Zenon DEF RecoveryInv
  <1>3. wrote' \in 0..MaxWrites /\ wrote + 1 \in 1..MaxWrites
    BY <1>1, <1>2, Bounds DEF Types, SessionType
  <1>4. SessionType'
    BY <1>1, <1>2, <1>3, Zenon DEF Types, SessionType
  <1>5. session \in Computes /\ session = home
    BY <1>1, <1>2, Zenon DEF RecoveryInv, Writers, Types, SessionType
  <1>6. DiskType'
    <2>1. data[session] \cup {wrote + 1} \in Trees
      BY <1>2, <1>3, <1>5 DEF Types, DiskType, Trees, AllNodes
    <2> QED BY <1>1, <1>2, <2>1, Zenon DEF Types, DiskType
  <1>7. Types'
    BY <1>1, <1>2, <1>4, <1>6, TypesStay, Zenon DEF Types
  <1>8. Restores'
    <2>1. wf.state \notin Closed => home # wf.target
      BY Zenon DEF RecoveryInv, Restores
    <2>2. wf.target \in AllNodes /\ data \in [AllNodes -> Trees]
      BY <1>2 DEF Types, RestoreType, DiskType, AllNodes
    <2>3. wf.target # session => data'[wf.target] = data[wf.target]
      BY <1>1, <2>2
    <2> QED BY <1>1, <1>5, <2>1, <2>3, RestoresFrame, Zenon
  <1> QED BY <1>1, <1>7, <1>8, InvStays, Zenon DEF RecoveryInv

\* Leave keeps it.
LEMMA LeaveKeeps ==
  ASSUME RecoveryInv, Leave
  PROVE  RecoveryInv'
  <1>1. /\ online' = online /\ data' = data /\ home' = home /\ rep' = rep /\ copy' = copy
        /\ acct' = acct /\ wrote' = wrote /\ waived' = waived /\ prot' = prot
        /\ fault' = fault /\ claimed' = claimed /\ cmds' = cmds /\ frozen' = frozen
        /\ tomb' = tomb /\ wf' = wf /\ pc' = pc /\ run' = run /\ xfer' = xfer
        /\ recv' = recv /\ late' = late /\ sync' = sync /\ gen' = gen /\ spent' = spent
        /\ session' = Nobody /\ lease' = [lease EXCEPT !.state = "ended"]
    BY Zenon DEF Leave, faults, restore
  <1>2. Types
    BY Zenon DEF RecoveryInv
  <1>3. SessionType'
    BY <1>1, <1>2 DEF Types, SessionType
  <1>4. Types'
    BY <1>1, <1>2, <1>3, TypesStay, Zenon DEF Types
  <1>5. Writers'
    BY <1>1, Zenon DEF RecoveryInv, Writers, FaultOpen
  <1> QED BY <1>1, <1>4, <1>5, InvStays, Zenon DEF RecoveryInv

------------------------------------------------------------------------------
(* Backups. *)

\* A restore that is closed asks for nothing.
LEMMA ClosedRestores ==
  ASSUME wf' = wf, wf.state \in Closed
  PROVE  Restores'
  BY Zenon DEF Restores

\* CreateSnapshotWorkflow keeps the invariant: no restore is open.
LEMMA CreateSnapshotKeeps ==
  ASSUME RecoveryInv, NEW n \in AllNodes, CreateSnapshotWorkflow(n)
  PROVE  RecoveryInv'
  <1>1. /\ online' = online /\ data' = data /\ home' = home /\ copy' = copy
        /\ lease' = lease /\ session' = session /\ wrote' = wrote
        /\ waived' = waived /\ prot' = prot /\ fault' = fault /\ claimed' = claimed
        /\ cmds' = cmds /\ frozen' = frozen /\ tomb' = tomb /\ wf' = wf /\ pc' = pc
        /\ run' = run /\ xfer' = xfer /\ recv' = recv /\ late' = late /\ gen' = gen
        /\ Spend("backups", MaxBackups) /\ wf.state \in Closed
        /\ sync' = [state |-> "sent", src |-> home, dst |-> n, tree |-> data[home]]
    BY Zenon DEF CreateSnapshotWorkflow, faults, restore
  <1>2. Types
    BY Zenon DEF RecoveryInv
  <1>3. SyncType'
    BY <1>1, <1>2 DEF Types, SyncType, ReplicaType, DiskType, AllNodes
  <1>4. ReplicaType'
    <2>1. \/ rep' = rep /\ acct' = acct
          \/ /\ n \in Computes
             /\ rep' = [rep EXCEPT ![n] = IF rep[n] = "hot" THEN rep[n] ELSE "syncing"]
             /\ acct' = [acct EXCEPT ![n] = "active"]
      BY DEF CreateSnapshotWorkflow, AllNodes
    <2>2. /\ rep' \in [Computes -> RepStates]
          /\ acct' \in [Computes -> {"none", "pending", "active", "stale", "error"}]
      BY <1>2, <2>1 DEF Types, ReplicaType, RepStates
    <2> QED BY <1>1, <1>2, <2>2, Zenon DEF Types, ReplicaType
  <1>5. WorldType'
    BY <1>1, <1>2, SpendWorld, Zenon
  <1>6. Types'
    BY <1>1, <1>2, <1>3, <1>4, <1>5, TypesStay, Zenon DEF Types
  <1>7. Restores'
    BY <1>1, ClosedRestores, Zenon
  <1> QED BY <1>1, <1>6, <1>7, InvStays, Zenon DEF RecoveryInv

\* PublishBackup keeps it: beside a restore no backup starts to publish.
LEMMA PublishBackupKeeps ==
  ASSUME RecoveryInv, PublishBackup
  PROVE  RecoveryInv'
  <1>1. /\ online' = online /\ data' = data /\ home' = home /\ rep' = rep /\ copy' = copy
        /\ acct' = acct /\ lease' = lease /\ session' = session /\ wrote' = wrote
        /\ waived' = waived /\ prot' = prot /\ fault' = fault /\ claimed' = claimed
        /\ cmds' = cmds /\ frozen' = frozen /\ tomb' = tomb /\ wf' = wf /\ pc' = pc
        /\ run' = run /\ xfer' = xfer /\ recv' = recv /\ late' = late /\ gen' = gen /\ spent' = spent
        /\ sync.state = "sent" /\ sync' = [sync EXCEPT !.state = "publishing"]
    BY Zenon DEF PublishBackup, users, faults, restore
  <1>2. Types
    BY Zenon DEF RecoveryInv
  <1>3. SyncType'
    BY <1>1, <1>2 DEF Types, SyncType
  <1>4. Types'
    BY <1>1, <1>2, <1>3, TypesStay, Zenon DEF Types
  <1>5. wf.state \in Closed
    BY <1>1 DEF RecoveryInv, Restores
  <1>6. Restores'
    BY <1>1, <1>5, ClosedRestores, Zenon
  <1> QED BY <1>1, <1>4, <1>6, InvStays, Zenon DEF RecoveryInv

\* ExchangeBackup keeps it: a backup that comes late to the target of a restore
\* comes before the restore has published anything.
LEMMA ExchangeBackupKeeps ==
  ASSUME RecoveryInv, ExchangeBackup
  PROVE  RecoveryInv'
  <1>1. /\ online' = online /\ home' = home /\ rep' = rep /\ copy' = copy
        /\ acct' = acct /\ lease' = lease /\ session' = session /\ wrote' = wrote
        /\ waived' = waived /\ prot' = prot /\ fault' = fault /\ claimed' = claimed
        /\ cmds' = cmds /\ frozen' = frozen /\ tomb' = tomb /\ wf' = wf /\ pc' = pc
        /\ run' = run /\ xfer' = xfer /\ recv' = recv /\ late' = late /\ gen' = gen /\ spent' = spent
        /\ data' = [data EXCEPT ![sync.dst] = sync.tree]
        /\ sync' = [sync EXCEPT !.state = IF sync.state = "late" THEN "none" ELSE "published"]
    BY Zenon DEF ExchangeBackup, users, faults, restore
  <1>2. Types
    BY Zenon DEF RecoveryInv
  <1>3. SyncType'
    BY <1>1, <1>2 DEF Types, SyncType
  <1>4. DiskType'
    BY <1>1, <1>2 DEF Types, SyncType, DiskType
  <1>5. Types'
    BY <1>1, <1>2, <1>3, <1>4, TypesStay, Zenon DEF Types
  <1>6. Restores'
    <2>1. sync.state \in {"publishing", "late"}
      BY Zenon DEF ExchangeBackup
    <2>2. wf.state \notin Closed =>
            /\ sync.state \in {"none", "late"} /\ home # wf.target
            /\ Landed => ~(sync.state = "late" /\ sync.dst = wf.target)
      BY Zenon DEF RecoveryInv, Restores
    <2>3. sync.state = "late" => sync'.state = "none"
      BY <1>1, <1>2 DEF Types, SyncType
    <2>4. sync.dst # wf.target => data'[wf.target] = data[wf.target]
      BY <1>1, <1>2 DEF Types, DiskType, RestoreType, AllNodes
    <2>5. wf.state \notin Closed => sync.state = "late"
      BY <2>1, <2>2
    <2> QED BY <1>1, <2>2, <2>3, <2>4, <2>5, RestoresFrame, Zenon
  <1> QED BY <1>1, <1>5, <1>6, InvStays, Zenon DEF RecoveryInv

\* CompleteSnapshotWorkflow and FailSnapshotWorkflow keep it: no restore is
\* open beside a backup that its login has not stopped.
LEMMA EndSnapshotKeeps ==
  ASSUME RecoveryInv, CompleteSnapshotWorkflow \/ FailSnapshotWorkflow
  PROVE  RecoveryInv'
  <1>1. /\ online' = online /\ data' = data /\ home' = home /\ acct' = acct
        /\ lease' = lease /\ session' = session /\ wrote' = wrote
        /\ waived' = waived /\ prot' = prot /\ fault' = fault /\ claimed' = claimed
        /\ cmds' = cmds /\ frozen' = frozen /\ tomb' = tomb /\ wf' = wf /\ pc' = pc
        /\ run' = run /\ xfer' = xfer /\ recv' = recv /\ late' = late /\ gen' = gen
        /\ Spend("mishaps", MaxMishaps) \/ spent' = spent
        /\ copy' = [copy EXCEPT ![sync.dst] = sync.tree] \/ copy' = copy
        /\ sync' = [sync EXCEPT !.state = "none"]
    BY Zenon DEF CompleteSnapshotWorkflow, FailSnapshotWorkflow, faults, restore
  <1>2. Types
    BY Zenon DEF RecoveryInv
  <1>3. SyncType'
    BY <1>1, <1>2 DEF Types, SyncType
  <1>4. ReplicaType'
    <2>1. copy' \in [AllNodes -> Trees \cup {NoTree}]
      BY <1>1, <1>2 DEF Types, ReplicaType, SyncType
    <2>2. \/ rep' = rep
          \/ /\ sync.dst # Storage
             /\ rep' = [rep EXCEPT ![sync.dst] =
                          IF rep[sync.dst] \in {"home", "split", "corrupt"}
                          THEN "split" ELSE "hot"]
          \/ /\ sync.dst # Storage
             /\ rep' = [rep EXCEPT ![sync.dst] =
                          IF copy[sync.dst] = NoTree /\ rep[sync.dst] # "corrupt"
                          THEN "error" ELSE rep[sync.dst]]
      BY Zenon DEF CompleteSnapshotWorkflow, FailSnapshotWorkflow
    <2>3. sync.dst # Storage => sync.dst \in Computes
      BY <1>2 DEF Types, SyncType, AllNodes
    <2>4. rep' \in [Computes -> RepStates]
      BY <1>2, <2>2, <2>3 DEF Types, ReplicaType, RepStates
    <2> QED BY <1>1, <1>2, <2>1, <2>4, Zenon DEF Types, ReplicaType
  <1>5. WorldType'
    BY <1>1, <1>2, SpendWorld, Zenon
  <1>6. Types'
    BY <1>1, <1>2, <1>3, <1>4, <1>5, TypesStay, Zenon DEF Types
  <1>7. wf.state \in Closed
    <2>1. sync.state \in {"sent", "published"}
      BY DEF CompleteSnapshotWorkflow, FailSnapshotWorkflow
    <2> QED BY <2>1 DEF RecoveryInv, Restores
  <1>8. Restores'
    BY <1>1, <1>7, ClosedRestores, Zenon
  <1> QED BY <1>1, <1>6, <1>8, InvStays, Zenon DEF RecoveryInv

------------------------------------------------------------------------------
(* Data faults. *)

\* What an operation consists of.
LEMMA OpParts ==
  \A op \in Op : op[1] \in {"freeze", "release"} /\ op[2] \in 1..MaxFaults /\ op[3] \in 1..LastGen
  BY DEF Op

\* ReportUserDataFault keeps the invariant: the fault before it is in the tomb,
\* and nothing was ever queued for the new one.
LEMMA ReportKeepsAll ==
  ASSUME RecoveryInv, ReportUserDataFault
  PROVE  RecoveryInv'
  <1>1. /\ online' = online /\ data' = data /\ home' = home /\ acct' = acct
        /\ session' = session /\ wrote' = wrote /\ waived' = waived /\ prot' = prot
        /\ claimed' = claimed /\ cmds' = cmds /\ frozen' = frozen /\ tomb' = tomb
        /\ wf' = wf /\ pc' = pc /\ run' = run /\ xfer' = xfer /\ recv' = recv /\ late' = late
        /\ sync' = sync /\ gen' = gen /\ spent' = spent
        /\ fault.seq < MaxFaults
        /\ fault' = [seq |-> fault.seq + 1, node |-> home, gen |-> gen, relgen |-> 0,
                     state |-> "reported", release |-> "none"]
        /\ rep' = [rep EXCEPT ![home] = "corrupt"]
        /\ copy' = [copy EXCEPT ![home] = NoTree]
        /\ lease' = [lease EXCEPT !.state = "ended"]
        /\ fault.state = "none" \/ fault.release = "released"
    BY Zenon DEF ReportUserDataFault, restore
  <1>2. Types
    BY Zenon DEF RecoveryInv
  <1>3. fault.seq \in 0..MaxFaults /\ gen \in 1..LastGen /\ home \in Computes
    BY <1>2 DEF Types, FaultType, WorldType, ReplicaType
  <1>4. FaultType'
    <2>1. /\ fault'.state = "reported" /\ fault'.seq # 0
          /\ fault' \in [seq : 0..MaxFaults, node : Computes, gen : 0..LastGen,
                         relgen : 0..LastGen,
                         state : {"none", "reported", "freezing", "retry_wait", "resolved",
                                  "recovery_available", "recovery_unavailable"},
                         release : {"none", "pending", "releasing", "retry_wait",
                                    "released"}]
      BY <1>1, <1>3, Bounds
    <2>2. fault'.state = "none" <=> fault'.seq = 0
      BY <2>1
    <2> QED BY <1>1, <1>2, <2>1, <2>2, Zenon DEF Types, FaultType
  <1>5. ReplicaType'
    BY <1>1, <1>2 DEF Types, ReplicaType, RepStates, AllNodes
  <1>6. SessionType'
    BY <1>1, <1>2 DEF Types, SessionType
  <1>7. Types'
    BY <1>1, <1>2, <1>4, <1>5, <1>6, TypesStay, Zenon DEF Types
  <1>8. /\ fault'.seq = fault.seq + 1 /\ fault'.node = home /\ fault'.state = "reported"
        /\ fault'.release = "none"
    BY <1>1
  <1>9. /\ frozen = {}
        /\ \A s \in 1..MaxFaults : s < fault.seq + 1 => s \in tomb
        /\ \A s \in tomb : s \in 1..MaxFaults /\ s <= fault.seq
        /\ \A op \in Op : op[2] > fault.seq => cmds[op] = "none"
    <2>1. /\ frozen # {} => fault.seq \notin tomb /\ fault.state # "none"
          /\ \A s \in tomb : s <= fault.seq
          /\ \A s \in 1..MaxFaults : s < fault.seq => s \in tomb
          /\ \A op \in Op : op[2] > fault.seq => cmds[op] = "none"
          /\ fault.release = "released" => fault.seq \in tomb
      BY Zenon DEF RecoveryInv, Gates
    <2>2. fault.seq = 0 \/ fault.seq \in tomb
      BY <1>1, <1>2, <2>1, Zenon DEF Types, FaultType
    <2>3. tomb \subseteq 1..MaxFaults
      BY <1>2, Zenon DEF Types, FaultType
    <2>4. \A s \in 1..MaxFaults : s < fault.seq + 1 => s < fault.seq \/ s = fault.seq
      BY <1>3
    <2>5. 0 \notin 1..MaxFaults
      OBVIOUS
    <2> QED BY <1>1, <2>1, <2>2, <2>3, <2>4, <2>5, Zenon
  <1>10. Gates'
    <2>1. \A op \in Op : op[2] \in 1..MaxFaults /\ (op[2] >= fault.seq + 1 => cmds[op] = "none")
      BY <1>3, <1>9, OpParts
    <2>2. fault.seq + 1 \notin tomb /\ \A s \in tomb : s <= fault.seq + 1
      BY <1>3, <1>9
    <2>3. \A op \in Op : /\ op[2] > fault.seq + 1 => cmds[op] = "none"
                         /\ op[2] = fault.seq + 1 => cmds[op] = "none"
      BY <1>3, <2>1
    <2> QED BY <1>1, <1>8, <1>9, <2>2, <2>3 DEF Gates
  <1>11. Writers'
    <2>1. session # Nobody => session = home
      BY Zenon DEF RecoveryInv, Writers
    <2>2. Unfrozen'
      <3>1. \A op \in Op : op[2] = fault.seq + 1 => cmds[op] = "none"
        BY <1>3, <1>9
      <3> QED BY <1>1, <1>8, <3>1 DEF Unfrozen
    <2> QED BY <1>1, <1>8, <2>1, <2>2, Zenon DEF Writers
  <1>12. Restores'
    <2>1. wf.state \notin Closed => home # wf.target
      BY Zenon DEF RecoveryInv, Restores
    <2>2. home # wf.target => rep'[wf.target] = rep[wf.target]
      BY <1>1, <1>2 DEF Types, ReplicaType, RestoreType
    <2> QED BY <1>1, <2>1, <2>2, RestoresFrame, Zenon
  <1> QED BY <1>7, <1>10, <1>11, <1>12, Zenon DEF RecoveryInv

\* The type of a fault row.
FaultRow == [seq : 0..MaxFaults, node : Computes, gen : 0..LastGen, relgen : 0..LastGen,
             state : {"none", "reported", "freezing", "retry_wait", "resolved",
                      "recovery_available", "recovery_unavailable"},
             release : {"none", "pending", "releasing", "retry_wait", "released"}]

\* A step that gives the fault another state or release, neither "released", and
\* carries out no command, keeps the gates.
LEMMA GatesFrame ==
  ASSUME RecoveryInv, frozen' = frozen, tomb' = tomb,
         fault'.seq = fault.seq, fault'.node = fault.node,
         fault'.state = fault.state
           \/ (fault'.state \in {"freezing", "retry_wait"} /\ fault.state \notin {"none", "resolved"})
           \/ (fault'.state = "resolved" /\ fault.state # "none"),
         fault'.release = "released" => fault.release = "released",
         \A op \in Op : cmds'[op] = "done" <=> cmds[op] = "done",
         \A op \in Op : cmds'[op] # "none" /\ cmds[op] = "none" =>
                          op[2] = fault.seq /\ (op[1] = "release" => fault.state = "resolved")
  PROVE  Gates'
  <1>1. /\ frozen \subseteq {fault.node}
        /\ frozen # {} => fault.seq \notin tomb /\ fault.state # "none"
        /\ \A s \in tomb : s <= fault.seq
        /\ \A s \in 1..MaxFaults : s < fault.seq => s \in tomb
        /\ \A op \in Op : op[2] > fault.seq => cmds[op] = "none"
        /\ \A op \in Op : op[1] = "release" /\ op[2] = fault.seq =>
              /\ cmds[op] # "none" => fault.state = "resolved"
              /\ cmds[op] = "done" => fault.seq \in tomb
        /\ \A op \in Op : op[1] = "freeze" /\ op[2] = fault.seq /\ cmds[op] = "done"
                            /\ fault.seq \notin tomb => fault.node \in frozen
        /\ fault.seq \in tomb => fault.state = "resolved"
        /\ fault.release = "released" => fault.seq \in tomb
        /\ fault.state \in {"recovery_available", "recovery_unavailable"} =>
              fault.node \in frozen
    BY Zenon DEF RecoveryInv, Gates
  <1>2. fault.seq \in Nat /\ fault.state = "resolved" => fault'.state = "resolved"
    BY DEF RecoveryInv, Types, FaultType
  <1>3. fault'.state = "none" => fault.state = "none"
    OBVIOUS
  <1>4. fault'.state \in {"recovery_available", "recovery_unavailable"} => fault.node \in frozen
    BY <1>1
  <1>5. \A op \in Op : op[2] > fault.seq => cmds'[op] = "none"
    <2>1. fault.seq \in 0..MaxFaults
      BY DEF RecoveryInv, Types, FaultType
    <2> QED BY <1>1, <2>1, OpParts
  <1>6. \A op \in Op : op[1] = "release" /\ op[2] = fault.seq =>
              /\ cmds'[op] # "none" => fault'.state = "resolved"
              /\ cmds'[op] = "done" => fault.seq \in tomb
    <2>1. fault.state = "resolved" => fault'.state = "resolved"
      OBVIOUS
    <2> QED BY <1>1, <2>1, Zenon
  <1>7. \A op \in Op : op[1] = "freeze" /\ op[2] = fault.seq /\ cmds'[op] = "done"
                            /\ fault.seq \notin tomb => fault.node \in frozen
    BY <1>1, Zenon
  <1>8. fault.seq \in tomb => fault'.state = "resolved"
    BY <1>1
  <1> QED BY <1>1, <1>3, <1>4, <1>5, <1>6, <1>7, <1>8, Zenon DEF Gates

\* The claim of an operation keeps the type of the commands and carries none
\* out.
LEMMA ClaimOpKeeps ==
  ASSUME RecoveryInv, NEW op \in Op, ClaimOp(op)
  PROVE  /\ online' = online /\ data' = data /\ home' = home /\ rep' = rep /\ copy' = copy
         /\ acct' = acct /\ lease' = lease /\ session' = session /\ wrote' = wrote
         /\ waived' = waived /\ prot' = prot
         /\ frozen' = frozen /\ tomb' = tomb /\ wf' = wf /\ pc' = pc
         /\ run' = run /\ xfer' = xfer /\ recv' = recv /\ late' = late /\ sync' = sync /\ gen' = gen
         /\ spent' = spent
         /\ claimed' \subseteq Op /\ cmds' \in [Op -> {"none", "queued", "done"}]
         /\ \A o \in Op : o # op => cmds'[o] = cmds[o]
         /\ \A o \in Op : cmds'[o] = "done" <=> cmds[o] = "done"
  <1>1. /\ online' = online /\ data' = data /\ home' = home /\ rep' = rep /\ copy' = copy
        /\ acct' = acct /\ lease' = lease /\ session' = session /\ wrote' = wrote
        /\ waived' = waived /\ prot' = prot
        /\ frozen' = frozen /\ tomb' = tomb /\ wf' = wf /\ pc' = pc
        /\ run' = run /\ xfer' = xfer /\ recv' = recv /\ late' = late /\ sync' = sync /\ gen' = gen
        /\ spent' = spent /\ claimed' = claimed \cup {op}
    BY Zenon DEF ClaimOp, users, restore
  <1>2. /\ cmds \in [Op -> {"none", "queued", "done"}] /\ claimed \subseteq Op
    BY Zenon DEF RecoveryInv, Types, FaultType
  <1>3. \/ cmds' = [cmds EXCEPT ![op] = "queued"] /\ cmds[op] = "none"
        \/ cmds' = [cmds EXCEPT ![op] = cmds[op]]
    BY Zenon DEF ClaimOp
  <1>4. /\ cmds' \in [Op -> {"none", "queued", "done"}]
        /\ \A o \in Op : o # op => cmds'[o] = cmds[o]
        /\ \A o \in Op : cmds'[o] = "done" <=> cmds[o] = "done"
    BY <1>2, <1>3
  <1>5. claimed' \subseteq Op
    BY <1>1, <1>2
  <1> QED BY <1>1, <1>4, <1>5, Zenon

\* ClaimUserDataFault and ClaimUserDataFaultRelease keep the invariant.
LEMMA ClaimsKeep ==
  ASSUME RecoveryInv, ClaimUserDataFault \/ ClaimUserDataFaultRelease
  PROVE  RecoveryInv'
  <1>0. Types
    BY Zenon DEF RecoveryInv
  <1>1. fault \in FaultRow /\ gen \in 1..LastGen
    BY <1>0, Zenon DEF Types, FaultType, WorldType, FaultRow
  <1>2. PICK kind \in {"freeze", "release"} :
          /\ ClaimOp(<<kind, fault.seq, gen>>)
          /\ kind = "freeze" =>
               /\ fault' = [fault EXCEPT !.state = "freezing", !.gen = gen]
               /\ fault.state \in {"reported", "retry_wait", "freezing"}
          /\ kind = "release" =>
               /\ fault' = [fault EXCEPT !.release = "releasing", !.relgen = gen]
               /\ fault.state = "resolved"
    BY DEF ClaimUserDataFault, ClaimUserDataFaultRelease
  <1> DEFINE op == <<kind, fault.seq, gen>>
  <1>3. fault.state # "none" /\ fault.seq \in 1..MaxFaults
    <2>1. fault.state # "none"
      BY <1>2
    <2>2. fault.seq # 0
      BY <1>0, <2>1, Zenon DEF Types, FaultType
    <2> QED BY <1>1, <2>1, <2>2 DEF FaultRow
  <1>4. op \in Op /\ op[1] = kind /\ op[2] = fault.seq
    BY <1>1, <1>3 DEF Op
  <1>5. ClaimOp(op)
    BY <1>2
  <1>6. /\ fault' \in FaultRow /\ fault'.seq = fault.seq /\ fault'.node = fault.node
        /\ kind = "freeze" => fault'.state = "freezing" /\ fault'.release = fault.release
        /\ kind = "release" => fault'.state = fault.state /\ fault'.release = "releasing"
    <2>1. CASE kind = "freeze"
      <3>1. fault' = [fault EXCEPT !.state = "freezing", !.gen = gen]
        BY <1>2, <2>1, Zenon
      <3>2. gen \in 0..LastGen
        BY <1>1
      <3>3. fault' \in FaultRow
        BY <1>1, <3>1, <3>2, Zenon DEF FaultRow
      <3>4. /\ fault'.seq = fault.seq /\ fault'.node = fault.node
            /\ fault'.state = "freezing" /\ fault'.release = fault.release
        BY <1>1, <3>1 DEF FaultRow
      <3> QED BY <2>1, <3>3, <3>4
    <2>2. CASE kind = "release"
      <3>1. fault' = [fault EXCEPT !.release = "releasing", !.relgen = gen]
        BY <1>2, <2>2, Zenon
      <3>2. gen \in 0..LastGen
        BY <1>1
      <3>3. fault' \in FaultRow
        BY <1>1, <3>1, <3>2, Zenon DEF FaultRow
      <3>4. /\ fault'.seq = fault.seq /\ fault'.node = fault.node
            /\ fault'.state = fault.state /\ fault'.release = "releasing"
        BY <1>1, <3>1 DEF FaultRow
      <3> QED BY <2>2, <3>3, <3>4
    <2> QED BY <2>1, <2>2, Zenon
  <1> HIDE DEF op
  <1>7. FaultType'
    <2>1. fault'.state # "none" /\ fault'.seq # 0
      BY <1>2, <1>3, <1>6
    <2> QED BY <1>0, <1>4, <1>5, <1>6, <2>1, ClaimOpKeeps, Zenon
            DEF Types, FaultType, FaultRow
  <1>8. Types'
    BY <1>0, <1>4, <1>5, <1>7, ClaimOpKeeps, TypesStay, Zenon DEF Types
  <1>9. Gates'
    <2>1. \/ fault'.state = fault.state
          \/ fault'.state = "freezing" /\ fault.state \notin {"none", "resolved"}
      BY <1>2, <1>6
    <2>2. fault'.release = "released" => fault.release = "released"
      BY <1>6
    <2>3. \A o \in Op : cmds'[o] # "none" /\ cmds[o] = "none" => o = op
      BY <1>4, <1>5, ClaimOpKeeps, Zenon
    <2>4. op[1] = "release" => fault.state = "resolved"
      BY <1>2, <1>4, Zenon
    <2>5. /\ frozen' = frozen /\ tomb' = tomb
          /\ \A o \in Op : cmds'[o] = "done" <=> cmds[o] = "done"
      BY <1>4, <1>5, ClaimOpKeeps, Zenon
    <2>6. \A o \in Op : cmds'[o] # "none" /\ cmds[o] = "none" =>
                          o[2] = fault.seq /\ (o[1] = "release" => fault.state = "resolved")
      BY <1>4, <2>3, <2>4, Zenon
    <2>7. \/ fault'.state = fault.state
          \/ (fault'.state \in {"freezing", "retry_wait"} /\ fault.state \notin {"none", "resolved"})
          \/ (fault'.state = "resolved" /\ fault.state # "none")
      BY <2>1
    <2> QED BY <1>6, <2>2, <2>5, <2>6, <2>7, GatesFrame, Zenon
  <1>10. Writers'
    <2>1. /\ home' = home /\ session' = session /\ lease' = lease
          /\ \A o \in Op : cmds'[o] = "done" <=> cmds[o] = "done"
      BY <1>4, <1>5, ClaimOpKeeps, Zenon
    <2>2. /\ FaultOpen => home = fault.node
          /\ session # Nobody => session = home /\ (lease.state = "active" \/ Unfrozen)
      BY Zenon DEF RecoveryInv, Writers
    <2>3. CASE kind = "freeze"
      <3>1. FaultOpen /\ fault'.state = "freezing"
        BY <1>2, <1>6, <2>3 DEF FaultOpen
      <3>2. Unfrozen => Unfrozen'
        <4>1. fault'.state \in {"reported", "freezing", "retry_wait"}
          BY <3>1
        <4> QED BY <1>6, <2>1, <4>1, Zenon DEF Unfrozen
      <3> QED BY <1>6, <2>1, <2>2, <3>1, <3>2, Zenon DEF Writers
    <2>4. CASE kind = "release"
      <3>1. fault.state = "resolved" /\ fault'.state = "resolved"
        BY <1>2, <1>6, <2>4, Zenon
      <3>2. ~FaultOpen' /\ ~Unfrozen
        BY <3>1 DEF FaultOpen, Unfrozen
      <3> QED BY <2>1, <2>2, <3>2, Zenon DEF Writers
    <2> QED BY <2>3, <2>4, Zenon
  <1>11. Restores'
    BY <1>4, <1>5, ClaimOpKeeps, InvStays, Zenon
  <1> QED BY <1>8, <1>9, <1>10, <1>11, Zenon DEF RecoveryInv

\* FreezeUserData keeps it: a command of an earlier fault finds the tomb, and
\* the latest one closes the session that was left without a lease.
LEMMA FreezeKeeps ==
  ASSUME RecoveryInv, NEW op \in Op, FreezeUserData(op)
  PROVE  RecoveryInv'
  <1>1. /\ online' = online /\ data' = data /\ home' = home /\ rep' = rep /\ copy' = copy
        /\ acct' = acct /\ lease' = lease /\ wrote' = wrote
        /\ waived' = waived /\ prot' = prot /\ fault' = fault /\ claimed' = claimed
        /\ tomb' = tomb /\ wf' = wf /\ pc' = pc
        /\ run' = run /\ xfer' = xfer /\ recv' = recv /\ late' = late /\ sync' = sync /\ gen' = gen
        /\ spent' = spent
        /\ op[1] = "freeze" /\ cmds[op] = "queued"
        /\ cmds' = [cmds EXCEPT ![op] = "done"]
        /\ \/ op[2] \in tomb /\ frozen' = frozen /\ session' = session
           \/ /\ op[2] \notin tomb /\ frozen' = frozen \cup {fault.node}
              /\ session' = IF session = fault.node THEN Nobody ELSE session
    BY Zenon DEF FreezeUserData, restore
  <1>2. Types
    BY Zenon DEF RecoveryInv
  <1>3. /\ fault.node \in Computes /\ fault.seq \in 0..MaxFaults
        /\ fault.state = "none" <=> fault.seq = 0
    BY <1>2 DEF Types, FaultType
  <1>4. /\ cmds' \in [Op -> {"none", "queued", "done"}] /\ cmds'[op] = "done"
        /\ \A o \in Op : o # op => cmds'[o] = cmds[o]
    BY <1>1, <1>2 DEF Types, FaultType
  <1>5. /\ frozen' \subseteq Computes /\ session' \in Computes \cup {Nobody}
    BY <1>1, <1>2, <1>3 DEF Types, FaultType, SessionType
  <1>6. FaultType' /\ SessionType'
    BY <1>1, <1>2, <1>4, <1>5, Zenon DEF Types, FaultType, SessionType
  <1>7. Types'
    BY <1>1, <1>2, <1>6, TypesStay, Zenon DEF Types
  <1>8. Gates
    BY Zenon DEF RecoveryInv
  <1>9. op[2] \in 1..MaxFaults /\ op[2] <= fault.seq
    <2>1. cmds[op] # "none" /\ op[2] \in 1..MaxFaults
      BY <1>1, OpParts
    <2>2. ~(op[2] > fault.seq)
      BY <1>8, <2>1, Zenon DEF Gates
    <2> QED BY <1>3, <2>1, <2>2, SMTT(40)
  <1>10. op[2] \notin tomb => op[2] = fault.seq /\ fault.state # "none"
    <2>1. op[2] < fault.seq => op[2] \in tomb
      BY <1>8, <1>9, ZenonT(60) DEF Gates
    <2> QED BY <1>3, <1>9, <2>1
  <1>11. frozen \subseteq frozen' /\ frozen' \subseteq {fault.node}
    BY <1>1, <1>8 DEF Gates
  <1>12. Gates'
    <2>1. frozen' # {} => fault.seq \notin tomb /\ fault.state # "none"
      BY <1>1, <1>8, <1>10, Zenon DEF Gates
    <2>2. \A o \in Op : o[2] > fault.seq => cmds'[o] = "none"
      <3>1. ~(op[2] > fault.seq)
        BY <1>3, <1>9
      <3> QED BY <1>4, <1>8, <3>1, Zenon DEF Gates
    <2>3. \A o \in Op : o[1] = "release" => o # op
      BY <1>1
    <2>4. \A o \in Op : o[1] = "freeze" /\ o[2] = fault.seq /\ cmds'[o] = "done"
                            /\ fault.seq \notin tomb => fault.node \in frozen'
      <3>1. op[2] = fault.seq /\ fault.seq \notin tomb => fault.node \in frozen'
        BY <1>1
      <3>2. \A o \in Op : o[1] = "freeze" /\ o[2] = fault.seq /\ cmds[o] = "done"
                            /\ fault.seq \notin tomb => fault.node \in frozen
        BY <1>8, Zenon DEF Gates
      <3> QED BY <1>4, <1>11, <3>1, <3>2, Zenon
    <2>5. \A o \in Op : o[1] = "release" /\ o[2] = fault.seq =>
              /\ cmds'[o] # "none" => fault.state = "resolved"
              /\ cmds'[o] = "done" => fault.seq \in tomb
      <3>1. \A o \in Op : o[1] = "release" /\ o[2] = fault.seq =>
              /\ cmds[o] # "none" => fault.state = "resolved"
              /\ cmds[o] = "done" => fault.seq \in tomb
        BY <1>8, Zenon DEF Gates
      <3>2. \A o \in Op : o[1] = "release" => cmds'[o] = cmds[o]
        BY <1>4, <2>3, Zenon
      <3> QED BY <3>1, <3>2, Zenon
    <2>6. /\ \A s \in tomb : s <= fault.seq
          /\ \A s \in 1..MaxFaults : s < fault.seq => s \in tomb
          /\ fault.seq \in tomb => fault.state = "resolved"
          /\ fault.release = "released" => fault.seq \in tomb
          /\ fault.state \in {"recovery_available", "recovery_unavailable"} =>
                fault.node \in frozen'
      BY <1>8, <1>11, Zenon DEF Gates
    <2> QED BY <1>1, <1>11, <2>1, <2>2, <2>4, <2>5, <2>6, Zenon DEF Gates
  <1>13. Writers'
    <2>1. /\ FaultOpen => home = fault.node
          /\ session # Nobody => session = home /\ (lease.state = "active" \/ Unfrozen)
      BY Zenon DEF RecoveryInv, Writers
    <2>2. FaultOpen' <=> FaultOpen
      BY <1>1, Zenon DEF FaultOpen
    <2>3. CASE op[2] \in tomb
      <3>1. Unfrozen => Unfrozen'
        <4>1. op[2] = fault.seq => fault.state = "resolved"
          BY <1>8, <2>3, Zenon DEF Gates
        <4>2. Unfrozen => fault.state # "resolved"
          BY DEF Unfrozen
        <4> QED BY <1>1, <1>4, <4>1, <4>2, Zenon DEF Unfrozen
      <3>2. session' = session
        BY <1>1, <2>3, Zenon
      <3> QED BY <1>1, <2>1, <2>2, <3>1, <3>2, Zenon DEF Writers
    <2>4. CASE op[2] \notin tomb
      <3>1. session' = IF session = fault.node THEN Nobody ELSE session
        BY <1>1, <2>4, Zenon
      <3>2. session' # Nobody => session' = session /\ session # fault.node
        BY <3>1, Zenon
      <3>3. Unfrozen => FaultOpen
        BY DEF Unfrozen, FaultOpen
      <3> QED BY <1>1, <2>1, <2>2, <3>2, <3>3, Zenon DEF Writers
    <2> QED BY <2>3, <2>4, Zenon
  <1> QED BY <1>1, <1>7, <1>12, <1>13, InvStays, Zenon DEF RecoveryInv

\* ReleaseUserData keeps it: a release of the latest fault is only there once
\* the fault is resolved, and one of an earlier fault changes nothing.
LEMMA ReleaseKeeps ==
  ASSUME RecoveryInv, NEW op \in Op, ReleaseUserData(op)
  PROVE  RecoveryInv'
  <1>1. /\ online' = online /\ data' = data /\ home' = home /\ rep' = rep /\ copy' = copy
        /\ acct' = acct /\ lease' = lease /\ session' = session /\ wrote' = wrote
        /\ waived' = waived /\ prot' = prot /\ fault' = fault /\ claimed' = claimed
        /\ wf' = wf /\ pc' = pc /\ run' = run /\ xfer' = xfer /\ recv' = recv /\ late' = late
        /\ sync' = sync /\ gen' = gen /\ spent' = spent
        /\ op[1] = "release" /\ cmds[op] = "queued"
        /\ cmds' = [cmds EXCEPT ![op] = "done"]
        /\ frozen' = IF op[2] = fault.seq THEN frozen \ {fault.node} ELSE frozen
        /\ tomb' = tomb \cup {op[2]}
    BY Zenon DEF ReleaseUserData, users, restore
  <1>2. Types
    BY Zenon DEF RecoveryInv
  <1>3. fault.seq \in 0..MaxFaults /\ op[2] \in 1..MaxFaults
    BY <1>2, OpParts, SMTT(40) DEF Types, FaultType
  <1>4. /\ cmds' \in [Op -> {"none", "queued", "done"}] /\ cmds'[op] = "done"
        /\ \A o \in Op : o # op => cmds'[o] = cmds[o]
    BY <1>1, <1>2 DEF Types, FaultType
  <1>5. frozen' \subseteq frozen
    BY <1>1
  <1>6. FaultType'
    <2>1. frozen' \subseteq Computes /\ tomb' \subseteq 1..MaxFaults
      BY <1>1, <1>2, <1>3, <1>5, Zenon DEF Types, FaultType
    <2> QED BY <1>1, <1>2, <1>4, <2>1, Zenon DEF Types, FaultType
  <1>7. Types'
    BY <1>1, <1>2, <1>6, TypesStay, Zenon DEF Types
  <1>8. Gates
    BY Zenon DEF RecoveryInv
  <1>9. op[2] <= fault.seq
    <2>1. cmds[op] # "none"
      BY <1>1
    <2>2. ~(op[2] > fault.seq)
      BY <1>8, <2>1, Zenon DEF Gates
    <2> QED BY <1>3, <2>2
  <1>10. Gates'
    <2>1. /\ frozen \subseteq {fault.node}
          /\ frozen # {} => fault.seq \notin tomb /\ fault.state # "none"
          /\ \A s \in tomb : s <= fault.seq
          /\ \A s \in 1..MaxFaults : s < fault.seq => s \in tomb
          /\ \A o \in Op : o[2] > fault.seq => cmds[o] = "none"
          /\ \A o \in Op : o[1] = "release" /\ o[2] = fault.seq =>
                /\ cmds[o] # "none" => fault.state = "resolved"
                /\ cmds[o] = "done" => fault.seq \in tomb
          /\ \A o \in Op : o[1] = "freeze" /\ o[2] = fault.seq /\ cmds[o] = "done"
                              /\ fault.seq \notin tomb => fault.node \in frozen
          /\ fault.seq \in tomb => fault.state = "resolved"
          /\ fault.release = "released" => fault.seq \in tomb
          /\ fault.state \in {"recovery_available", "recovery_unavailable"} =>
                fault.node \in frozen
      BY <1>8, Zenon DEF Gates
    <2>2. \A o \in Op : o[2] > fault.seq => cmds'[o] = "none"
      <3>1. ~(op[2] > fault.seq)
        BY <1>3, <1>9, SMTT(40)
      <3> QED BY <1>4, <2>1, <3>1, Zenon
    <2>3. \A s \in tomb' : s <= fault.seq
      BY <1>1, <1>9, <2>1, SMTT(40)
    <2>4. \A s \in 1..MaxFaults : s < fault.seq => s \in tomb'
      BY <1>1, <2>1
    <2>5. \A o \in Op : o[1] = "freeze" => o # op
      BY <1>1
    <2>6. CASE op[2] = fault.seq
      <3>1. frozen' = {} /\ fault.seq \in tomb'
        BY <1>1, <2>1, <2>6
      <3>2. fault.state = "resolved"
        <4>1. cmds[op] # "none"
          BY <1>1
        <4> QED BY <1>1, <2>1, <2>6, <4>1, Zenon
      <3>3. fault.state \notin {"recovery_available", "recovery_unavailable"}
        BY <3>2
      <3> QED BY <1>1, <2>2, <2>3, <2>4, <3>1, <3>2, <3>3, ZenonT(60) DEF Gates
    <2>7. CASE op[2] # fault.seq
      <3>1. op[2] \in tomb
        BY <1>3, <1>9, <2>1, <2>7
      <3>2. tomb' = tomb /\ frozen' = frozen
        BY <1>1, <2>7, <3>1
      <3>3. \A o \in Op : o[2] = fault.seq => cmds'[o] = cmds[o]
        BY <1>4, <2>7, Zenon
      <3>4. \A o \in Op : o[1] = "release" /\ o[2] = fault.seq =>
                /\ cmds'[o] # "none" => fault.state = "resolved"
                /\ cmds'[o] = "done" => fault.seq \in tomb
        BY <2>1, <3>3, Zenon
      <3>5. \A o \in Op : o[1] = "freeze" /\ o[2] = fault.seq /\ cmds'[o] = "done"
                              /\ fault.seq \notin tomb => fault.node \in frozen
        BY <2>1, <3>3, Zenon
      <3> QED BY <1>1, <2>1, <2>2, <3>2, <3>4, <3>5, ZenonT(60) DEF Gates
    <2> QED BY <2>6, <2>7, Zenon
  <1>11. Writers'
    <2>1. Unfrozen => Unfrozen'
      <3>1. \A o \in Op : o[1] = "freeze" => o # op
        BY <1>1
      <3>2. \A o \in Op : o[1] = "freeze" => cmds'[o] = cmds[o]
        BY <1>4, <3>1, Zenon
      <3> QED BY <1>1, <3>2, Zenon DEF Unfrozen
    <2>2. FaultOpen' <=> FaultOpen
      BY <1>1, Zenon DEF FaultOpen
    <2> QED BY <1>1, <2>1, <2>2, Zenon DEF RecoveryInv, Writers
  <1> QED BY <1>1, <1>7, <1>10, <1>11, InvStays, Zenon DEF RecoveryInv

\* CompleteUserDataFaultFreeze keeps it: a command that was carried out for a
\* fault that is not resolved has left its gate.
LEMMA CompleteFreezeKeeps ==
  ASSUME RecoveryInv, NEW op \in Op, CompleteUserDataFaultFreeze(op)
  PROVE  RecoveryInv'
  <1>1. /\ online' = online /\ data' = data /\ home' = home /\ rep' = rep /\ copy' = copy
        /\ acct' = acct /\ lease' = lease /\ session' = session /\ wrote' = wrote
        /\ waived' = waived /\ cmds' = cmds /\ frozen' = frozen /\ tomb' = tomb
        /\ wf' = wf /\ pc' = pc /\ run' = run /\ xfer' = xfer /\ recv' = recv /\ late' = late
        /\ sync' = sync /\ gen' = gen /\ spent' = spent
        /\ op[1] = "freeze" /\ cmds[op] = "done"
        /\ claimed' = claimed \ {op} /\ prot' = Desired(home, rep, acct, copy)
    BY Zenon DEF CompleteUserDataFaultFreeze, restore
  <1>2. Types
    BY Zenon DEF RecoveryInv
  <1>3. fault \in FaultRow
    BY <1>2, Zenon DEF Types, FaultType, FaultRow
  <1>4. \/ fault' = fault
        \/ /\ fault.state = "freezing" /\ op[2] = fault.seq
           /\ \/ fault' = [fault EXCEPT !.state = "recovery_available"]
              \/ fault' = [fault EXCEPT !.state = "recovery_unavailable"]
    <2>1. CASE Claimed(op)
      <3>1. op # ReleaseOp
        <4>1. op[1] = "freeze"
          BY <1>1, Zenon
        <4>2. ReleaseOp[1] = "release"
          BY DEF ReleaseOp
        <4> HIDE DEF ReleaseOp
        <4> QED BY <4>1, <4>2
      <3>2. op = FreezeOp /\ fault.state = "freezing"
        BY <2>1, <3>1, Zenon DEF Claimed
      <3>3. op[2] = fault.seq
        BY <3>2 DEF FreezeOp
      <3> QED BY <2>1, <3>2, <3>3, Zenon DEF CompleteUserDataFaultFreeze
    <2>2. CASE ~Claimed(op)
      BY <2>2, Zenon DEF CompleteUserDataFaultFreeze
    <2> QED BY <2>1, <2>2
  <1>5. \/ fault' = fault
        \/ /\ fault.state = "freezing" /\ op[2] = fault.seq
           /\ fault' \in FaultRow /\ fault'.seq = fault.seq /\ fault'.node = fault.node
           /\ fault'.state \in {"recovery_available", "recovery_unavailable"}
           /\ fault'.release = fault.release
    BY <1>3, <1>4 DEF FaultRow
  <1>6. ProtType'
    <2>1. DiskType /\ copy \in [AllNodes -> Trees \cup {NoTree}]
      BY <1>2, Zenon DEF Types, ReplicaType
    <2> QED BY <1>1, <2>1, DesiredType, Zenon DEF ProtType
  <1>7. FaultType'
    <2>1. claimed' \subseteq Op
      BY <1>1, <1>2 DEF Types, FaultType
    <2>2. fault' \in FaultRow
      BY <1>3, <1>5, Zenon
    <2>3. fault'.state = "none" <=> fault'.seq = 0
      <3>1. fault.state = "none" <=> fault.seq = 0
        BY <1>2, Zenon DEF Types, FaultType
      <3> QED BY <1>5, <3>1
    <2> QED BY <1>1, <1>2, <2>1, <2>2, <2>3, Zenon DEF Types, FaultType, FaultRow
  <1>8. Types'
    BY <1>1, <1>2, <1>6, <1>7, TypesStay, Zenon DEF Types
  <1>9. CASE fault' = fault
    BY <1>1, <1>8, <1>9, InvStays, Zenon DEF RecoveryInv
  <1>10. CASE fault' # fault
    <2>1. /\ fault.state = "freezing" /\ op[2] = fault.seq
          /\ fault'.seq = fault.seq /\ fault'.node = fault.node
          /\ fault'.state \in {"recovery_available", "recovery_unavailable"}
          /\ fault'.release = fault.release
      BY <1>5, <1>10, Zenon
    <2>2. fault.seq \notin tomb /\ fault.state # "resolved"
      <3>1. fault.state # "resolved"
        BY <2>1
      <3> QED BY <3>1, Zenon DEF RecoveryInv, Gates
    <2>3. fault.node \in frozen
      BY <1>1, <2>1, <2>2, Zenon DEF RecoveryInv, Gates
    <2>4. fault'.state # "none"
      BY <2>1
    <2>5. Gates'
      <3>1. \A o \in Op : o[1] = "release" /\ o[2] = fault.seq => cmds[o] = "none"
        BY <2>2, Zenon DEF RecoveryInv, Gates
      <3>2. \A o \in Op : o[1] = "release" /\ o[2] = fault.seq => ~(cmds[o] = "done")
        BY <3>1
      <3> QED BY <1>1, <2>1, <2>2, <2>3, <2>4, <3>1, <3>2, Zenon DEF RecoveryInv, Gates
    <2>6. Writers'
      <3>1. ~Unfrozen
        BY <1>1, <2>1, Zenon DEF Unfrozen
      <3>2. FaultOpen
        BY <2>1 DEF FaultOpen
      <3> QED BY <1>1, <2>1, <3>1, <3>2, Zenon DEF RecoveryInv, Writers
    <2> QED BY <1>1, <1>8, <2>5, <2>6, InvStays, Zenon DEF RecoveryInv
  <1> QED BY <1>9, <1>10, Zenon

\* CompleteUserDataFaultRelease keeps it: a release that was carried out has
\* entered the fault in the tomb.
LEMMA CompleteReleaseKeeps ==
  ASSUME RecoveryInv, NEW op \in Op, CompleteUserDataFaultRelease(op)
  PROVE  RecoveryInv'
  <1>1. /\ online' = online /\ data' = data /\ home' = home /\ rep' = rep /\ copy' = copy
        /\ acct' = acct /\ lease' = lease /\ session' = session /\ wrote' = wrote
        /\ waived' = waived /\ prot' = prot /\ cmds' = cmds /\ frozen' = frozen
        /\ tomb' = tomb /\ wf' = wf /\ pc' = pc /\ run' = run /\ xfer' = xfer
        /\ recv' = recv /\ late' = late /\ sync' = sync /\ gen' = gen /\ spent' = spent
        /\ op[1] = "release" /\ cmds[op] = "done" /\ claimed' = claimed \ {op}
    BY Zenon DEF CompleteUserDataFaultRelease, users, restore
  <1>2. Types
    BY Zenon DEF RecoveryInv
  <1>3. fault \in FaultRow
    BY <1>2, Zenon DEF Types, FaultType, FaultRow
  <1>4. \/ fault' = fault
        \/ /\ fault.state = "resolved" /\ op[2] = fault.seq
           /\ fault' = [fault EXCEPT !.release = "released"]
    <2>1. CASE Claimed(op)
      <3>1. op # FreezeOp
        BY <1>1 DEF FreezeOp
      <3>2. op = ReleaseOp /\ fault.state = "resolved"
        BY <2>1, <3>1, Zenon DEF Claimed
      <3>3. op[2] = fault.seq
        BY <3>2 DEF ReleaseOp
      <3> QED BY <2>1, <3>2, <3>3, Zenon DEF CompleteUserDataFaultRelease
    <2>2. CASE ~Claimed(op)
      BY <2>2, Zenon DEF CompleteUserDataFaultRelease
    <2> QED BY <2>1, <2>2
  <1>5. \/ fault' = fault
        \/ /\ fault.state = "resolved" /\ op[2] = fault.seq
           /\ fault' \in FaultRow /\ fault'.seq = fault.seq /\ fault'.node = fault.node
           /\ fault'.state = fault.state
    BY <1>3, <1>4 DEF FaultRow
  <1>6. FaultType'
    <2>1. claimed' \subseteq Op
      BY <1>1, <1>2 DEF Types, FaultType
    <2>2. fault' \in FaultRow
      BY <1>3, <1>5, Zenon
    <2>3. fault'.state = "none" <=> fault'.seq = 0
      BY <1>2, <1>5, Zenon DEF Types, FaultType
    <2> QED BY <1>1, <1>2, <2>1, <2>2, <2>3, Zenon DEF Types, FaultType, FaultRow
  <1>7. Types'
    BY <1>1, <1>2, <1>6, TypesStay, Zenon DEF Types
  <1>8. CASE fault' = fault
    BY <1>1, <1>7, <1>8, InvStays, Zenon DEF RecoveryInv
  <1>9. CASE fault' # fault
    <2>1. /\ fault.state = "resolved" /\ op[2] = fault.seq
          /\ fault'.seq = fault.seq /\ fault'.node = fault.node /\ fault'.state = fault.state
      BY <1>5, <1>9, Zenon
    <2>2. fault.seq \in tomb
      BY <1>1, <2>1, Zenon DEF RecoveryInv, Gates
    <2>3. Gates'
      BY <1>1, <2>1, <2>2, Zenon DEF RecoveryInv, Gates
    <2>4. Writers'
      <3>1. Unfrozen' <=> Unfrozen
        BY <1>1, <2>1, Zenon DEF Unfrozen
      <3>2. FaultOpen' <=> FaultOpen
        BY <1>1, <2>1, Zenon DEF FaultOpen
      <3> QED BY <1>1, <2>1, <3>1, <3>2, Zenon DEF RecoveryInv, Writers
    <2> QED BY <1>1, <1>7, <2>3, <2>4, InvStays, Zenon DEF RecoveryInv
  <1> QED BY <1>8, <1>9, Zenon

\* RetryUserDataFault keeps it.
LEMMA RetryFaultKeeps ==
  ASSUME RecoveryInv, NEW op \in Op, RetryUserDataFault(op)
  PROVE  RecoveryInv'
  <1>1. /\ online' = online /\ data' = data /\ home' = home /\ rep' = rep /\ copy' = copy
        /\ acct' = acct /\ lease' = lease /\ session' = session /\ wrote' = wrote
        /\ waived' = waived /\ prot' = prot /\ cmds' = cmds /\ frozen' = frozen
        /\ tomb' = tomb /\ wf' = wf /\ pc' = pc /\ run' = run /\ xfer' = xfer
        /\ recv' = recv /\ late' = late /\ sync' = sync /\ gen' = gen
        /\ Spend("mishaps", MaxMishaps) \/ spent' = spent
        /\ claimed' = claimed \ {op}
    BY Zenon DEF RetryUserDataFault, users, restore
  <1>2. Types
    BY Zenon DEF RecoveryInv
  <1>3. fault \in FaultRow
    BY <1>2, Zenon DEF Types, FaultType, FaultRow
  <1>4. \/ fault' = fault
        \/ fault.state = "freezing" /\ fault' = [fault EXCEPT !.state = "retry_wait"]
        \/ fault.state = "resolved" /\ fault' = [fault EXCEPT !.release = "retry_wait"]
    <2>1. CASE Claimed(op) /\ op[1] = "freeze"
      <3>1. op # ReleaseOp
        BY <2>1 DEF ReleaseOp
      <3>2. fault.state = "freezing"
        BY <2>1, <3>1, Zenon DEF Claimed
      <3> QED BY <2>1, <3>2, Zenon DEF RetryUserDataFault
    <2>2. CASE Claimed(op) /\ op[1] # "freeze"
      <3>1. op # FreezeOp
        BY <2>2 DEF FreezeOp
      <3>2. fault.state = "resolved"
        BY <2>2, <3>1, Zenon DEF Claimed
      <3> QED BY <2>2, <3>2, Zenon DEF RetryUserDataFault
    <2>3. CASE ~Claimed(op)
      BY <2>3, Zenon DEF RetryUserDataFault
    <2> QED BY <2>1, <2>2, <2>3
  <1>5. /\ fault' \in FaultRow /\ fault'.seq = fault.seq /\ fault'.node = fault.node
        /\ \/ fault'.state = fault.state
           \/ fault.state = "freezing" /\ fault'.state = "retry_wait"
        /\ fault'.release = "released" => fault.release = "released"
    BY <1>3, <1>4 DEF FaultRow
  <1>6. FaultType'
    <2>1. claimed' \subseteq Op
      BY <1>1, <1>2 DEF Types, FaultType
    <2>2. fault'.state = "none" <=> fault'.seq = 0
      <3>1. fault.state = "none" <=> fault.seq = 0
        BY <1>2, Zenon DEF Types, FaultType
      <3> QED BY <1>5, <3>1
    <2> QED BY <1>1, <1>2, <1>5, <2>1, <2>2, Zenon DEF Types, FaultType, FaultRow
  <1>7. WorldType'
    BY <1>1, <1>2, SpendWorld, Zenon
  <1>8. Types'
    BY <1>1, <1>2, <1>6, <1>7, TypesStay, Zenon DEF Types
  <1>9. \/ fault'.state = fault.state
        \/ (fault'.state \in {"freezing", "retry_wait"} /\ fault.state \notin {"none", "resolved"})
        \/ (fault'.state = "resolved" /\ fault.state # "none")
    BY <1>5
  <1>10. Gates'
    BY <1>1, <1>5, <1>9, GatesFrame, Zenon
  <1>11. Writers'
    <2>1. fault.state \in {"reported", "freezing", "retry_wait"} =>
            fault'.state \in {"reported", "freezing", "retry_wait"}
      BY <1>5
    <2>2. Unfrozen => Unfrozen'
      BY <1>1, <1>5, <2>1, Zenon DEF Unfrozen
    <2>3. FaultOpen' => FaultOpen
      BY <1>5 DEF FaultOpen
    <2> QED BY <1>1, <1>5, <2>2, <2>3, Zenon DEF RecoveryInv, Writers
  <1> QED BY <1>1, <1>8, <1>10, <1>11, InvStays, Zenon DEF RecoveryInv

------------------------------------------------------------------------------
(* The home moves. *)

\* A move of the home keeps the types, the gates and the writers: no session is
\* open, for the lease has ended and the fault, if there is one, is frozen.
LEMMA MoveHomeKeeps ==
  ASSUME RecoveryInv, NEW n \in Computes, NEW point \in Trees, MoveHome(n, point),
         RecoveryReady, lease.state = "ended",
         lease' = lease, session' = session, claimed' = claimed, cmds' = cmds,
         frozen' = frozen, tomb' = tomb
  PROVE  ReplicaType' /\ ProtType' /\ FaultType' /\ Gates' /\ Writers'
  <1>1. Types
    BY Zenon DEF RecoveryInv
  <1>2. home \in Computes
    BY <1>1, Zenon DEF Types, ReplicaType
  <1>3. ReplicaType'
    <2>1. /\ home' = n
          /\ rep' = [rep EXCEPT ![home] = "stale", ![n] = "home"]
          /\ copy' = [copy EXCEPT ![home] = NoTree, ![n] = point]
          /\ acct' = [acct EXCEPT ![home] = IF acct[home] = "none" THEN acct[home]
                                            ELSE "stale",
                                  ![n] = "active"]
      BY DEF MoveHome
    <2>2. rep' \in [Computes -> RepStates]
      BY <1>1, <1>2, <2>1 DEF Types, ReplicaType, RepStates
    <2>3. copy' \in [AllNodes -> Trees \cup {NoTree}]
      BY <1>1, <1>2, <2>1 DEF Types, ReplicaType, AllNodes
    <2>4. acct' \in [Computes -> {"none", "pending", "active", "stale", "error"}]
      BY <1>1, <1>2, <2>1 DEF Types, ReplicaType
    <2> QED BY <2>1, <2>2, <2>3, <2>4, Zenon DEF ReplicaType
  <1>4. ProtType'
    <2>1. DiskType /\ copy' \in [AllNodes -> Trees \cup {NoTree}]
      BY <1>1, <1>3, Zenon DEF Types, ReplicaType
    <2>2. prot' = Desired(n, rep', acct', copy')
      BY Zenon DEF MoveHome
    <2> QED BY <2>1, <2>2, DesiredType, Zenon DEF ProtType
  <1>5. fault \in FaultRow /\ (fault.state = "none" <=> fault.seq = 0)
    BY <1>1, Zenon DEF Types, FaultType, FaultRow
  <1>6. fault.state \in {"none", "resolved", "recovery_available"}
    BY Zenon DEF RecoveryReady
  <1>7. \/ fault' = fault /\ fault.state # "recovery_available"
        \/ /\ fault.state = "recovery_available"
           /\ fault' = [fault EXCEPT !.state = "resolved", !.release = "pending", !.relgen = 0]
    BY Zenon DEF MoveHome, ResolveUserDataFault
  <1>8. /\ fault' \in FaultRow /\ fault'.seq = fault.seq /\ fault'.node = fault.node
        /\ \/ fault'.state = fault.state
           \/ fault'.state = "resolved" /\ fault.state # "none"
        /\ fault'.state \in {"none", "resolved"}
        /\ fault'.release = "released" => fault.release = "released"
    <2>1. CASE fault' = fault /\ fault.state # "recovery_available"
      BY <1>5, <1>6, <2>1
    <2>2. CASE /\ fault.state = "recovery_available"
               /\ fault' = [fault EXCEPT !.state = "resolved", !.release = "pending",
                                         !.relgen = 0]
      <3>1. fault' \in FaultRow
        BY <1>5, <2>2, Bounds, Zenon DEF FaultRow
      <3>2. /\ fault'.seq = fault.seq /\ fault'.node = fault.node
            /\ fault'.state = "resolved" /\ fault'.release = "pending"
        BY <1>5, <2>2 DEF FaultRow
      <3> QED BY <2>2, <3>1, <3>2
    <2> QED BY <1>7, <2>1, <2>2, Zenon
  <1>9. FaultType'
    <2>1. fault'.state = "none" <=> fault'.seq = 0
      BY <1>5, <1>8
    <2> QED BY <1>1, <1>8, <2>1, Zenon DEF Types, FaultType, FaultRow
  <1>10. Gates'
    <2>1. \/ fault'.state = fault.state
          \/ (fault'.state \in {"freezing", "retry_wait"} /\ fault.state \notin {"none", "resolved"})
          \/ (fault'.state = "resolved" /\ fault.state # "none")
      BY <1>8
    <2> QED BY <1>8, <2>1, GatesFrame, Zenon
  <1>11. Writers'
    <2>1. ~FaultOpen'
      BY <1>8, Zenon DEF FaultOpen
    <2>2. ~Unfrozen
      BY <1>6 DEF Unfrozen
    <2>3. lease.state # "active"
      OBVIOUS
    <2>4. session = Nobody
      BY <2>2, <2>3, Zenon DEF RecoveryInv, Writers
    <2> QED BY <2>1, <2>4, Zenon DEF Writers
  <1> QED BY <1>3, <1>4, <1>9, <1>10, <1>11, Zenon

\* What is given up is a part of what was written.
LEMMA WaivedType ==
  ASSUME SessionType, NEW T
  PROVE  waived \cup ((1..wrote) \ T) \in Trees
  <1>1. wrote \in 0..MaxWrites /\ waived \subseteq 1..MaxWrites
    BY Zenon DEF SessionType, Trees
  <1>2. \A w \in 1..wrote : w \in 1..MaxWrites
    BY <1>1, Bounds
  <1>3. waived \cup ((1..wrote) \ T) \subseteq 1..MaxWrites
    BY <1>1, <1>2, Zenon
  <1> QED BY <1>3, Zenon DEF Trees

\* ConfirmReplicaTakeover keeps the invariant: the standby that is taken over
\* is not the target of a restore, for that is no longer ready.
LEMMA TakeoverKeeps ==
  ASSUME RecoveryInv, NEW n \in Computes, ConfirmReplicaTakeover(n)
  PROVE  RecoveryInv'
  <1>1. /\ online' = online /\ data' = data /\ lease' = lease /\ session' = session
        /\ wrote' = wrote /\ claimed' = claimed /\ cmds' = cmds /\ frozen' = frozen
        /\ tomb' = tomb /\ wf' = wf /\ pc' = pc /\ run' = run /\ xfer' = xfer
        /\ recv' = recv /\ late' = late /\ sync' = sync /\ gen' = gen /\ spent' = spent
        /\ RecoveryReady /\ lease.state = "ended" /\ MoveHome(n, copy[n])
        /\ waived' = waived \cup ((1..wrote) \ copy[n])
    BY Zenon DEF ConfirmReplicaTakeover, restore
  <1>2. Types
    BY Zenon DEF RecoveryInv
  <1>3. rep[n] = "hot" /\ copy[n] # NoTree /\ n # home
    BY Zenon DEF ConfirmReplicaTakeover, Hot
  <1>4. copy[n] \in Trees
    BY <1>2, <1>3 DEF Types, ReplicaType, AllNodes
  <1>5. ReplicaType' /\ ProtType' /\ FaultType' /\ Gates' /\ Writers'
    BY <1>1, <1>4, MoveHomeKeeps, Zenon
  <1>6. SessionType'
    BY <1>1, <1>2, WaivedType, Zenon DEF Types, SessionType
  <1>7. Types'
    BY <1>1, <1>2, <1>5, <1>6, TypesStay, Zenon DEF Types
  <1>8. Restores'
    <2>1. wf.state \notin Closed => rep[wf.target] = "syncing" /\ home # wf.target
      BY Zenon DEF RecoveryInv, Restores
    <2>2. wf.state \notin Closed => wf.target # n
      BY <1>3, <2>1
    <2>3. wf.target # n /\ wf.target # home => rep'[wf.target] = rep[wf.target]
      <3>1. rep' = [rep EXCEPT ![home] = "stale", ![n] = "home"]
        BY <1>1, Zenon DEF MoveHome
      <3> QED BY <1>2, <3>1 DEF Types, ReplicaType, RestoreType
    <2>4. home' = n
      BY <1>1, Zenon DEF MoveHome
    <2> QED BY <1>1, <2>1, <2>2, <2>3, <2>4, RestoresFrame, Zenon
  <1> QED BY <1>5, <1>7, <1>8, Zenon DEF RecoveryInv

------------------------------------------------------------------------------
(* The restore. *)

\* The type of a restore workflow.
WfRow == [state : Closed \cup {"scheduled", "retry_wait", "transferring",
                               "verifying", "publishing"},
          target : Computes, point : Trees, gen : 0..LastGen,
          attempt : 0..RetryMax, cap : {"prepared", "revoked", "consumed"},
          prepare : {"none", "ok"}]

\* CreateRestoreWorkflow keeps the invariant: nothing has landed yet, and of
\* backups there is at most one that comes late.
LEMMA CreateRestoreKeeps ==
  ASSUME RecoveryInv, NEW n \in Computes, CreateRestoreWorkflow(n)
  PROVE  RecoveryInv'
  <1>1. /\ online' = online /\ data' = data /\ home' = home /\ copy' = copy
        /\ lease' = lease /\ session' = session /\ wrote' = wrote
        /\ prot' = prot /\ fault' = fault /\ claimed' = claimed
        /\ cmds' = cmds /\ frozen' = frozen /\ tomb' = tomb /\ pc' = pc
        /\ recv' = "none" /\ sync' = sync /\ gen' = gen
        /\ late' = (IF recv = "publishing" THEN [late EXCEPT ![wf.target] = wf.point]
                    ELSE late)
        /\ wf' = [state |-> "scheduled", target |-> n, point |-> prot.point, gen |-> gen,
                  attempt |-> 0, cap |-> "prepared", prepare |-> "none"]
        /\ run' = "none" /\ xfer' = "none" /\ n # home
        /\ wf.state \in Closed /\ sync.state \in {"none", "late"}
        /\ rep' = [rep EXCEPT ![n] = "syncing"]
        /\ acct' = [acct EXCEPT ![n] = IF acct[n] = "active" THEN acct[n] ELSE "pending"]
        /\ waived' = waived \cup ((1..wrote) \ prot.point)
        /\ Spend("restores", MaxRestores)
        /\ prot.state = "restore_required"
    BY Zenon DEF CreateRestoreWorkflow, faults
  <1>2. Types
    BY Zenon DEF RecoveryInv
  <1>3. prot.point \in Trees /\ gen \in 0..LastGen
    <2>1. gen \in 1..LastGen
      BY <1>2, ZenonT(60) DEF Types, WorldType
    <2> QED BY <1>1, <1>2, <2>1 DEF Types, ProtType
  <1>4. ReplicaType'
    BY <1>1, <1>2 DEF Types, ReplicaType, RepStates
  <1>5. SessionType'
    BY <1>1, <1>2, WaivedType, Zenon DEF Types, SessionType
  <1>6. wf'.state = "scheduled" /\ wf'.target = n /\ wf'.attempt = 0
    BY <1>1
  <1>7. wf'.state \notin Closed
    BY <1>6 DEF Closed
  <1>8. RestoreType'
    <2>1. wf' \in WfRow
      BY <1>1, <1>3, Bounds DEF WfRow
    <2>2. wf'.attempt < RetryMax
      BY <1>6, Bounds
    <2>3. /\ run' \in {"none", "queued", "running", "ok", "failed"}
          /\ xfer' \in {"none", "prepared", "consumed", "published", "failed"}
          /\ recv' \in {"none", "verified", "publishing"}
      BY <1>1
    <2>4. late' \in [Computes -> Trees \cup {NoTree}]
      BY <1>1, <1>2 DEF Types, RestoreType
    <2> QED BY <1>1, <1>2, <1>7, <2>1, <2>2, <2>3, <2>4, Zenon DEF Types, RestoreType, WfRow
  <1>9. WorldType'
    BY <1>1, <1>2, SpendWorld, Zenon
  <1>10. Types'
    BY <1>1, <1>2, <1>4, <1>5, <1>8, <1>9, TypesStay, Zenon DEF Types
  <1>11. Restores'
    <2>1. rep'[n] = "syncing"
      BY <1>1, <1>2 DEF Types, ReplicaType
    <2>2. ~Landed' /\ recv' # "publishing"
      BY <1>1 DEF Landed
    <2> QED BY <1>1, <1>6, <2>1, <2>2, ZenonT(60) DEF Restores
  <1> QED BY <1>1, <1>10, <1>11, InvStays, Zenon DEF RecoveryInv

\* A step of the worker, of the storage node or of the target that publishes
\* nothing new keeps the invariant, when its workflow keeps the type.
LEMMA WorkStep ==
  ASSUME RecoveryInv, online' = online, data' = data, home' = home, copy' = copy,
         lease' = lease, session' = session, wrote' = wrote, waived' = waived,
         prot' = prot, fault' = fault, claimed' = claimed, cmds' = cmds,
         frozen' = frozen, tomb' = tomb, late' = late, sync' = sync, gen' = gen,
         rep' \in [Computes -> RepStates],
         acct' \in [Computes -> {"none", "pending", "active", "stale", "error"}],
         Spend("mishaps", MaxMishaps) \/ spent' = spent,
         RestoreType',
         wf'.state \notin Closed =>
           /\ wf.state \notin Closed /\ wf'.target = wf.target /\ wf'.point = wf.point
           /\ rep' = rep
           /\ Landed' => Landed
           /\ recv' = "publishing" =>
                \/ recv = "publishing"
                \/ ~(sync.state = "late" /\ sync.dst = wf.target) /\ late[wf.target] = NoTree
  PROVE  RecoveryInv'
  <1>1. Types
    BY Zenon DEF RecoveryInv
  <1>2. ReplicaType'
    BY <1>1, Zenon DEF Types, ReplicaType
  <1>3. WorldType'
    BY <1>1, SpendWorld, Zenon
  <1>4. Types'
    BY <1>1, <1>2, <1>3, TypesStay, Zenon DEF Types
  <1>5. Restores'
    <2> SUFFICES ASSUME wf'.state \notin Closed
                 PROVE  /\ sync.state \in {"none", "late"}
                        /\ rep[wf.target] = "syncing" /\ home # wf.target
                        /\ recv' = "publishing" \/ Landed =>
                             /\ ~(sync.state = "late" /\ sync.dst = wf.target)
                             /\ late[wf.target] = NoTree
                        /\ Landed => data[wf.target] = wf.point
      BY Zenon DEF Restores
    <2> QED BY Zenon DEF RecoveryInv, Restores
  <1> QED BY <1>4, <1>5, InvStays, Zenon DEF RecoveryInv

\* retryRestoreWorkflow keeps it: the last attempt closes the workflow.
LEMMA RetryRestoreKeeps ==
  ASSUME RecoveryInv, RetryRestore, pc # "idle", Spend("mishaps", MaxMishaps) \/ spent' = spent
  PROVE  RecoveryInv' /\ wf'.state # "succeeded"
  <1>1. /\ online' = online /\ data' = data /\ home' = home /\ copy' = copy
        /\ lease' = lease /\ session' = session /\ wrote' = wrote /\ waived' = waived
        /\ prot' = prot /\ fault' = fault /\ claimed' = claimed /\ cmds' = cmds
        /\ frozen' = frozen /\ tomb' = tomb /\ run' = run /\ xfer' = xfer
        /\ recv' = recv /\ late' = late /\ sync' = sync /\ gen' = gen /\ pc' = "idle"
    BY Zenon DEF RetryRestore, faults
  <1>2. Types
    BY Zenon DEF RecoveryInv
  <1>3. wf \in WfRow /\ wf.state \notin Closed /\ wf.attempt < RetryMax
    BY <1>2, Zenon DEF Types, RestoreType, WfRow
  <1>4. wf.attempt \in Nat /\ wf.attempt + 1 \in 0..RetryMax
    BY <1>3, Bounds DEF WfRow
  <1>5. /\ rep' \in [Computes -> RepStates]
        /\ acct' \in [Computes -> {"none", "pending", "active", "stale", "error"}]
    <2>1. \/ rep' = rep /\ acct' = acct
          \/ /\ rep' = [rep EXCEPT ![wf.target] =
                          IF rep[wf.target] = "syncing" THEN "error" ELSE rep[wf.target]]
             /\ acct' = [acct EXCEPT ![wf.target] =
                          IF acct[wf.target] = "pending" THEN "error" ELSE acct[wf.target]]
      BY Zenon DEF RetryRestore, FailRestoreWorkflow
    <2>2. wf.target \in Computes
      BY <1>3 DEF WfRow
    <2> QED BY <1>2, <2>1, <2>2 DEF Types, ReplicaType, RepStates
  <1>6. \/ wf' = wf /\ rep' = rep
        \/ wf' = [wf EXCEPT !.state = "failed", !.attempt = wf.attempt + 1, !.cap = "revoked"]
        \/ /\ wf' = [wf EXCEPT !.state = "retry_wait", !.attempt = wf.attempt + 1,
                               !.cap = "revoked"]
           /\ rep' = rep /\ ~(wf.attempt + 1 >= RetryMax)
    BY Zenon DEF RetryRestore, FailRestoreWorkflow
  <1>7. /\ wf' \in WfRow /\ wf'.target = wf.target /\ wf'.point = wf.point
        /\ wf'.state \in Closed \/ (wf'.attempt < RetryMax /\ rep' = rep)
        /\ wf'.state # "succeeded"
    <2>1. CASE wf' = wf /\ rep' = rep
      BY <1>3, <2>1 DEF Closed
    <2>2. CASE wf' = [wf EXCEPT !.state = "failed", !.attempt = wf.attempt + 1,
                                !.cap = "revoked"]
      <3>1. wf' \in WfRow
        BY <1>3, <1>4, <2>2, Zenon DEF WfRow, Closed
      <3>2. wf'.target = wf.target /\ wf'.point = wf.point /\ wf'.state = "failed"
        BY <1>3, <2>2, SMTT(40) DEF WfRow
      <3>3. wf'.state \in Closed /\ wf'.state # "succeeded"
        BY <3>2 DEF Closed
      <3> QED BY <3>1, <3>2, <3>3, Zenon
    <2>3. CASE /\ wf' = [wf EXCEPT !.state = "retry_wait", !.attempt = wf.attempt + 1,
                                   !.cap = "revoked"]
               /\ rep' = rep /\ ~(wf.attempt + 1 >= RetryMax)
      <3>1. wf' \in WfRow
        BY <1>3, <1>4, <2>3, Zenon DEF WfRow
      <3>2. /\ wf'.target = wf.target /\ wf'.point = wf.point /\ wf'.state = "retry_wait"
            /\ wf'.attempt = wf.attempt + 1
        BY <1>3, <2>3 DEF WfRow
      <3>3. wf'.attempt < RetryMax
        BY <1>4, <2>3, <3>2, Bounds
      <3> QED BY <2>3, <3>1, <3>2, <3>3
    <2> QED BY <1>6, <2>1, <2>2, <2>3, Zenon
  <1>8. RestoreType'
    <2>1. pc' \in {"idle", "account", "rotate", "prepare", "start", "receipt"}
      BY <1>1
    <2> QED BY <1>1, <1>2, <1>7, <2>1, Zenon DEF Types, RestoreType, WfRow
  <1>9. Landed' <=> Landed
    BY <1>1, Zenon DEF Landed
  <1> QED BY <1>1, <1>3, <1>5, <1>7, <1>8, <1>9, WorkStep, Zenon

\* The type of the restore after a step of an open one.
LEMMA RestoreRow ==
  ASSUME Types, wf' \in WfRow, wf'.state \notin Closed, wf'.attempt = wf.attempt,
         wf.state \notin Closed,
         pc' \in {"idle", "account", "rotate", "prepare", "start", "receipt"},
         run' \in {"none", "queued", "running", "ok", "failed"},
         xfer' \in {"none", "prepared", "consumed", "published", "failed"},
         recv' \in {"none", "verified", "publishing"}, late' = late
  PROVE  RestoreType'
  BY Zenon DEF Types, RestoreType, WfRow

\* ClaimRestoreWorkflow keeps the invariant.
LEMMA ClaimRestoreKeeps ==
  ASSUME RecoveryInv, ClaimRestoreWorkflow
  PROVE  RecoveryInv' /\ wf'.state # "succeeded"
  <1>1. /\ online' = online /\ data' = data /\ home' = home /\ rep' = rep /\ copy' = copy
        /\ acct' = acct /\ lease' = lease /\ session' = session /\ wrote' = wrote
        /\ waived' = waived /\ prot' = prot /\ fault' = fault /\ claimed' = claimed
        /\ cmds' = cmds /\ frozen' = frozen /\ tomb' = tomb /\ run' = run /\ xfer' = xfer
        /\ recv' = recv /\ late' = late /\ sync' = sync /\ gen' = gen /\ spent' = spent
        /\ wf.state \notin Closed
        /\ wf' = [wf EXCEPT !.state = IF wf.state = "retry_wait" THEN "scheduled"
                                      ELSE wf.state]
        /\ pc' = FirstStep(wf')
    BY Zenon DEF ClaimRestoreWorkflow, users, faults
  <1>2. Types
    BY Zenon DEF RecoveryInv
  <1>3. /\ wf \in WfRow /\ run \in {"none", "queued", "running", "ok", "failed"}
        /\ xfer \in {"none", "prepared", "consumed", "published", "failed"}
        /\ recv \in {"none", "verified", "publishing"}
    BY <1>2, Zenon DEF Types, RestoreType, WfRow
  <1>4. wf' \in WfRow
    BY <1>1, <1>3 DEF WfRow
  <1>5. /\ wf'.state \notin Closed /\ wf'.attempt = wf.attempt
        /\ wf'.target = wf.target /\ wf'.point = wf.point
    BY <1>1, <1>3 DEF WfRow, Closed
  <1>6. pc' \in {"idle", "account", "rotate", "prepare", "start", "receipt"}
    BY <1>1 DEF FirstStep
  <1>7. RestoreType'
    BY <1>1, <1>2, <1>3, <1>4, <1>5, <1>6, RestoreRow, Zenon
  <1>8. (Landed' <=> Landed) /\ wf'.state # "succeeded"
    BY <1>1, <1>5 DEF Landed, Closed
  <1>9. rep \in [Computes -> RepStates]
        /\ acct \in [Computes -> {"none", "pending", "active", "stale", "error"}]
    BY <1>2, Zenon DEF Types, ReplicaType
  <1> QED BY <1>1, <1>5, <1>7, <1>8, <1>9, WorkStep, Zenon

\* The worker is only busy while the workflow is open.
LEMMA Busy ==
  ASSUME RecoveryInv, pc # "idle"
  PROVE  wf.state \notin Closed
  BY Zenon DEF RecoveryInv, Types, RestoreType

\* A step that was a retry, or in which only the worker moves.
LEMMA WorkerMoves ==
  ASSUME RecoveryInv, pc # "idle", UNCHANGED <<online, data, users, faults, wf, run, xfer, recv, late, sync, gen>>,
         pc' \in {"idle", "account", "rotate", "prepare", "start", "receipt"},
         Spend("mishaps", MaxMishaps) \/ spent' = spent
  PROVE  RecoveryInv' /\ wf'.state # "succeeded"
  <1>1. /\ online' = online /\ data' = data /\ home' = home /\ rep' = rep /\ copy' = copy
        /\ acct' = acct /\ lease' = lease /\ session' = session /\ wrote' = wrote
        /\ waived' = waived /\ prot' = prot /\ fault' = fault /\ claimed' = claimed
        /\ cmds' = cmds /\ frozen' = frozen /\ tomb' = tomb /\ wf' = wf /\ run' = run
        /\ xfer' = xfer /\ recv' = recv /\ late' = late /\ sync' = sync /\ gen' = gen
    BY Zenon DEF users, faults
  <1>2. Types
    BY Zenon DEF RecoveryInv
  <1>3. wf.state \notin Closed
    BY Busy, Zenon
  <1>4. RestoreType'
    BY <1>1, <1>2, <1>3, Zenon DEF Types, RestoreType
  <1>5. (Landed' <=> Landed) /\ wf'.state # "succeeded"
    BY <1>1, <1>3 DEF Landed, Closed
  <1>6. rep \in [Computes -> RepStates]
        /\ acct \in [Computes -> {"none", "pending", "active", "stale", "error"}]
    BY <1>2, Zenon DEF Types, ReplicaType
  <1> QED BY <1>1, <1>3, <1>4, <1>5, <1>6, WorkStep, Zenon

\* restoreTargetAccount keeps it.
LEMMA RestoreAccountKeeps ==
  ASSUME RecoveryInv, RestoreAccount
  PROVE  RecoveryInv' /\ wf'.state # "succeeded"
  <1>0. pc # "idle"
    BY DEF RestoreAccount
  <1>1. CASE RetryRestore
    <2>1. Spend("mishaps", MaxMishaps) \/ spent' = spent
      BY Zenon DEF RestoreAccount
    <2> QED BY <1>0, <1>1, <2>1, RetryRestoreKeeps, Zenon
  <1>2. CASE ~RetryRestore
    <2>1. /\ online' = online /\ data' = data /\ home' = home /\ rep' = rep /\ copy' = copy
          /\ lease' = lease /\ session' = session /\ wrote' = wrote
          /\ waived' = waived /\ prot' = prot /\ fault' = fault /\ claimed' = claimed
          /\ cmds' = cmds /\ frozen' = frozen /\ tomb' = tomb /\ wf' = wf /\ run' = run
          /\ xfer' = xfer /\ recv' = recv /\ late' = late /\ sync' = sync /\ gen' = gen /\ spent' = spent
          /\ acct' = [acct EXCEPT ![wf.target] = "active"]
          /\ pc' = IF wf.cap = "prepared" THEN "prepare" ELSE "rotate"
      BY <1>2, Zenon DEF RestoreAccount, faults
    <2>2. Types
      BY Zenon DEF RecoveryInv
    <2>3. wf.state \notin Closed
      BY <1>0, Busy, Zenon
    <2>4. pc' \in {"idle", "account", "rotate", "prepare", "start", "receipt"}
      BY <2>1
    <2>5. RestoreType'
      BY <2>1, <2>2, <2>3, <2>4, ZenonT(60) DEF Types, RestoreType
    <2>6. (Landed' <=> Landed) /\ wf'.state # "succeeded"
      BY <2>1, <2>3 DEF Landed, Closed
    <2>7. rep \in [Computes -> RepStates]
          /\ acct' \in [Computes -> {"none", "pending", "active", "stale", "error"}]
      BY <2>1, <2>2, Zenon DEF Types, ReplicaType
    <2> QED BY <2>1, <2>3, <2>5, <2>6, <2>7, WorkStep, Zenon
  <1> QED BY <1>1, <1>2, ZenonT(60)

\* rotateRestoreCapability keeps it.
LEMMA RotateKeeps ==
  ASSUME RecoveryInv, RotateRestoreCapability
  PROVE  RecoveryInv' /\ wf'.state # "succeeded"
  <1>0. pc # "idle"
    BY DEF RotateRestoreCapability
  <1>1. CASE RetryRestore /\ spent' = spent
    BY <1>0, <1>1, RetryRestoreKeeps, Zenon
  <1>2. CASE ~(RetryRestore /\ spent' = spent)
    <2>1. /\ online' = online /\ data' = data /\ home' = home /\ rep' = rep /\ copy' = copy
          /\ acct' = acct /\ lease' = lease /\ session' = session /\ wrote' = wrote
          /\ waived' = waived /\ prot' = prot /\ fault' = fault /\ claimed' = claimed
          /\ cmds' = cmds /\ frozen' = frozen /\ tomb' = tomb
          /\ xfer' = xfer /\ recv' = recv /\ late' = late /\ sync' = sync /\ gen' = gen /\ spent' = spent
          /\ wf' = [wf EXCEPT !.cap = "prepared", !.prepare = "none"]
          /\ run' = "none" /\ pc' = "prepare"
      BY <1>2, Zenon DEF RotateRestoreCapability, users, faults
    <2>2. Types
      BY Zenon DEF RecoveryInv
    <2>3. wf.state \notin Closed
      BY <1>0, Busy, Zenon
    <2>4. /\ wf \in WfRow
          /\ xfer \in {"none", "prepared", "consumed", "published", "failed"}
          /\ recv \in {"none", "verified", "publishing"}
      BY <2>2, Zenon DEF Types, RestoreType, WfRow
    <2>5. wf' \in WfRow
      BY <2>1, <2>4, Zenon DEF WfRow
    <2>6. /\ wf'.state = wf.state /\ wf'.attempt = wf.attempt
          /\ wf'.target = wf.target /\ wf'.point = wf.point
      BY <2>1, <2>4 DEF WfRow
    <2>7. /\ pc' \in {"idle", "account", "rotate", "prepare", "start", "receipt"}
          /\ run' \in {"none", "queued", "running", "ok", "failed"}
      BY <2>1
    <2>8. RestoreType'
      BY <2>1, <2>2, <2>3, <2>4, <2>5, <2>6, <2>7, RestoreRow, Zenon
    <2>9. (Landed' => Landed) /\ wf'.state # "succeeded"
      BY <2>1, <2>3, <2>6 DEF Landed, Closed
    <2>10. rep \in [Computes -> RepStates]
           /\ acct \in [Computes -> {"none", "pending", "active", "stale", "error"}]
      BY <2>2, Zenon DEF Types, ReplicaType
    <2> QED BY <2>1, <2>3, <2>6, <2>8, <2>9, <2>10, WorkStep, Zenon
  <1> QED BY <1>1, <1>2, Zenon

\* prepare_snapshot_receive and the start of the transfer keep it.
LEMMA PrepareKeeps ==
  ASSUME RecoveryInv, PrepareRestore
  PROVE  RecoveryInv' /\ wf'.state # "succeeded"
  <1>0. pc # "idle"
    BY DEF PrepareRestore
  <1>1. CASE RetryRestore /\ (Spend("mishaps", MaxMishaps) \/ spent' = spent)
    BY <1>0, <1>1, RetryRestoreKeeps, Zenon
  <1>2. CASE /\ pc' = "idle"
             /\ UNCHANGED <<online, data, users, faults, wf, run, xfer, recv, late, sync, gen, spent>>
    <2>1. UNCHANGED <<online, data, users, faults, wf, run, xfer, recv, late, sync, gen>>
          /\ spent' = spent
      BY <1>2, Zenon
    <2>2. pc' \in {"idle", "account", "rotate", "prepare", "start", "receipt"}
      BY <1>2
    <2> QED BY <1>0, <2>1, <2>2, WorkerMoves, Zenon
  <1>3. CASE /\ xfer' = xfer \/ xfer' = "prepared"
             /\ IF wf.state = "scheduled" /\ wf.gen # gen
                THEN pc' = "idle" /\ wf' = [wf EXCEPT !.prepare = "ok"] /\ UNCHANGED run
                ELSE /\ wf' = [wf EXCEPT !.prepare = "ok",
                                         !.state = IF @ = "scheduled" THEN "transferring"
                                                   ELSE @]
                     /\ run' = IF run = "none" THEN "queued" ELSE run
                     /\ pc' = "start"
             /\ UNCHANGED <<online, data, users, faults, recv, late, sync, gen, spent>>
    <2>1. /\ online' = online /\ data' = data /\ home' = home /\ rep' = rep /\ copy' = copy
          /\ acct' = acct /\ lease' = lease /\ session' = session /\ wrote' = wrote
          /\ waived' = waived /\ prot' = prot /\ fault' = fault /\ claimed' = claimed
          /\ cmds' = cmds /\ frozen' = frozen /\ tomb' = tomb
          /\ recv' = recv /\ late' = late /\ sync' = sync /\ gen' = gen /\ spent' = spent
      BY <1>3, Zenon DEF users, faults
    <2>2. Types
      BY Zenon DEF RecoveryInv
    <2>3. wf.state \notin Closed
      BY <1>0, Busy, Zenon
    <2>4. /\ wf \in WfRow /\ run \in {"none", "queued", "running", "ok", "failed"}
          /\ xfer \in {"none", "prepared", "consumed", "published", "failed"}
          /\ recv \in {"none", "verified", "publishing"}
      BY <2>2, Zenon DEF Types, RestoreType, WfRow
    <2>5. \/ wf' = [wf EXCEPT !.prepare = "ok"]
          \/ wf' = [wf EXCEPT !.prepare = "ok",
                              !.state = IF wf.state = "scheduled" THEN "transferring"
                                        ELSE wf.state]
      BY <1>3, Zenon
    <2>6. wf' \in WfRow
      BY <2>4, <2>5, Zenon DEF WfRow
    <2>7. /\ wf'.attempt = wf.attempt /\ wf'.target = wf.target /\ wf'.point = wf.point
          /\ wf'.state = wf.state \/ wf'.state = "transferring"
      BY <2>4, <2>5, Zenon DEF WfRow
    <2>8. wf'.state \notin Closed
      BY <2>3, <2>7 DEF Closed
    <2>9. /\ pc' \in {"idle", "account", "rotate", "prepare", "start", "receipt"}
          /\ run' = run \/ run' = "queued"
      BY <1>3
    <2>10. /\ run' \in {"none", "queued", "running", "ok", "failed"}
           /\ xfer' \in {"none", "prepared", "consumed", "published", "failed"}
      BY <1>3, <2>4, <2>9
    <2>11. RestoreType'
      BY <2>1, <2>2, <2>3, <2>4, <2>6, <2>7, <2>8, <2>9, <2>10, RestoreRow, ZenonT(60)
    <2>12. (Landed' => Landed) /\ wf'.state # "succeeded"
      BY <1>3, <2>8, <2>9 DEF Landed, Closed
    <2>13. rep \in [Computes -> RepStates]
           /\ acct \in [Computes -> {"none", "pending", "active", "stale", "error"}]
      BY <2>2, Zenon DEF Types, ReplicaType
    <2> QED BY <2>1, <2>3, <2>7, <2>11, <2>12, <2>13, WorkStep, Zenon
  <1> QED BY <1>1, <1>2, <1>3, Zenon DEF PrepareRestore

\* RunRestoreTransfer keeps it: the storage node only sends, and the target only
\* receives, for the workflow that is open.
LEMMA RunTransferKeeps ==
  ASSUME RecoveryInv, RunRestoreTransfer
  PROVE  RecoveryInv' /\ (wf'.state = "succeeded" => wf.state = "succeeded")
  <1>1. /\ online' = online /\ data' = data /\ home' = home /\ rep' = rep /\ copy' = copy
        /\ acct' = acct /\ lease' = lease /\ session' = session /\ wrote' = wrote
        /\ waived' = waived /\ prot' = prot /\ fault' = fault /\ claimed' = claimed
        /\ cmds' = cmds /\ frozen' = frozen /\ tomb' = tomb /\ pc' = pc
        /\ late' = late /\ sync' = sync /\ gen' = gen /\ spent' = spent
    BY Zenon DEF RunRestoreTransfer, users, faults
  <1>2. Types
    BY Zenon DEF RecoveryInv
  <1>3. /\ wf \in WfRow /\ run \in {"none", "queued", "running", "ok", "failed"}
        /\ xfer \in {"none", "prepared", "consumed", "published", "failed"}
        /\ recv \in {"none", "verified", "publishing"}
        /\ pc \in {"idle", "account", "rotate", "prepare", "start", "receipt"}
    BY <1>2, Zenon DEF Types, RestoreType, WfRow
  <1>4. \/ /\ wf.state \in {"transferring", "verifying"}
           /\ wf' = [wf EXCEPT !.state = "verifying"]
           /\ run' = "running" /\ recv' = "verified" /\ xfer' = "consumed"
        \/ /\ wf' = wf /\ run' = "failed" /\ recv' = recv
           /\ xfer' = "failed" \/ xfer' = xfer
    BY Zenon DEF RunRestoreTransfer, Reports
  <1>5. rep \in [Computes -> RepStates]
        /\ acct \in [Computes -> {"none", "pending", "active", "stale", "error"}]
    BY <1>2, Zenon DEF Types, ReplicaType
  <1>6. Landed' => Landed
    BY <1>4 DEF Landed
  <1>7. CASE /\ wf.state \in {"transferring", "verifying"}
             /\ wf' = [wf EXCEPT !.state = "verifying"]
             /\ run' = "running" /\ recv' = "verified" /\ xfer' = "consumed"
    <2>1. wf' \in WfRow
      BY <1>3, <1>7 DEF WfRow
    <2>2. /\ wf'.attempt = wf.attempt /\ wf'.target = wf.target /\ wf'.point = wf.point
          /\ wf'.state = "verifying"
      BY <1>3, <1>7 DEF WfRow
    <2>3. /\ wf.state \notin Closed /\ wf'.state \notin Closed /\ wf'.state # "succeeded"
          /\ recv' # "publishing"
      BY <1>7, <2>2 DEF Closed
    <2>4. /\ run' \in {"none", "queued", "running", "ok", "failed"}
          /\ xfer' \in {"none", "prepared", "consumed", "published", "failed"}
          /\ recv' \in {"none", "verified", "publishing"}
      BY <1>7
    <2>5. RestoreType'
      BY <1>1, <1>2, <1>3, <2>1, <2>2, <2>3, <2>4, RestoreRow, Zenon
    <2> QED BY <1>1, <1>5, <1>6, <2>2, <2>3, <2>5, WorkStep, Zenon
  <1>8. CASE /\ wf' = wf /\ run' = "failed" /\ recv' = recv
             /\ xfer' = "failed" \/ xfer' = xfer
    <2>1. /\ run' \in {"none", "queued", "running", "ok", "failed"}
          /\ xfer' \in {"none", "prepared", "consumed", "published", "failed"}
      BY <1>3, <1>8
    <2>2. RestoreType'
      BY <1>1, <1>2, <1>8, <2>1, Zenon DEF Types, RestoreType
    <2> QED BY <1>1, <1>5, <1>6, <1>8, <2>2, WorkStep, Zenon
  <1> QED BY <1>4, <1>7, <1>8, Zenon

\* PublishRestore keeps it: the target publishes under the lock that a backup
\* to it would hold.
LEMMA PublishRestoreKeeps ==
  ASSUME RecoveryInv, PublishRestore
  PROVE  RecoveryInv' /\ (wf'.state = "succeeded" => wf.state = "succeeded")
  <1>1. /\ online' = online /\ data' = data /\ home' = home /\ rep' = rep /\ copy' = copy
        /\ acct' = acct /\ lease' = lease /\ session' = session /\ wrote' = wrote
        /\ waived' = waived /\ prot' = prot /\ fault' = fault /\ claimed' = claimed
        /\ cmds' = cmds /\ frozen' = frozen /\ tomb' = tomb /\ pc' = pc
        /\ late' = late /\ sync' = sync /\ gen' = gen /\ spent' = spent
    BY Zenon DEF PublishRestore, users, faults
  <1>2. Types
    BY Zenon DEF RecoveryInv
  <1>3. /\ wf \in WfRow /\ run \in {"none", "queued", "running", "ok", "failed"}
        /\ xfer \in {"none", "prepared", "consumed", "published", "failed"}
        /\ recv \in {"none", "verified", "publishing"}
        /\ pc \in {"idle", "account", "rotate", "prepare", "start", "receipt"}
    BY <1>2, Zenon DEF Types, RestoreType, WfRow
  <1>4. rep \in [Computes -> RepStates]
        /\ acct \in [Computes -> {"none", "pending", "active", "stale", "error"}]
    BY <1>2, Zenon DEF Types, ReplicaType
  <1>5. CASE Reports("verifying", "publishing")
    <2>1. /\ wf' = [wf EXCEPT !.state = "publishing"] /\ recv' = "publishing"
          /\ run' = run /\ xfer' = xfer /\ wf.state \in {"verifying", "publishing"}
      BY <1>5, Zenon DEF PublishRestore, Reports
    <2>2. ~(sync.state = "late" /\ sync.dst = wf.target) /\ late[wf.target] = NoTree
      BY <1>3 DEF PublishRestore, Publishing, WfRow
    <2>3. wf' \in WfRow
      BY <1>3, <2>1 DEF WfRow
    <2>4. /\ wf'.attempt = wf.attempt /\ wf'.target = wf.target /\ wf'.point = wf.point
          /\ wf'.state = "publishing"
      BY <1>3, <2>1 DEF WfRow
    <2>5. wf.state \notin Closed /\ wf'.state \notin Closed /\ wf'.state # "succeeded"
      BY <2>1, <2>4 DEF Closed
    <2>6. recv' \in {"none", "verified", "publishing"}
      BY <2>1
    <2>7. RestoreType'
      BY <1>1, <1>2, <1>3, <2>1, <2>3, <2>4, <2>5, <2>6, RestoreRow, Zenon
    <2>8. Landed' <=> Landed
      BY <2>1, Zenon DEF Landed
    <2> QED BY <1>1, <1>4, <2>2, <2>4, <2>5, <2>7, <2>8, WorkStep, Zenon
  <1>6. CASE ~Reports("verifying", "publishing")
    <2>1. /\ recv' = "none" /\ xfer' = "failed" /\ wf' = wf
          /\ run' = "failed" \/ run' = run
      BY <1>6, Zenon DEF PublishRestore
    <2>2. /\ run' \in {"none", "queued", "running", "ok", "failed"}
          /\ xfer' \in {"none", "prepared", "consumed", "published", "failed"}
          /\ recv' \in {"none", "verified", "publishing"} /\ recv' # "publishing"
      BY <1>3, <2>1
    <2>3. RestoreType'
      BY <1>1, <1>2, <2>1, <2>2, Zenon DEF Types, RestoreType
    <2>4. Landed' => Landed
      BY <2>1 DEF Landed
    <2> QED BY <1>1, <1>4, <2>1, <2>2, <2>3, <2>4, WorkStep, Zenon
  <1> QED BY <1>5, <1>6, Zenon

\* ExchangeRestore and a crash of the target keep it: what the target has after
\* either, if the trees were exchanged, is the point of the workflow.
LEMMA ExchangeRestoreKeeps ==
  ASSUME RecoveryInv, ExchangeRestore \/ TargetCrash
  PROVE  RecoveryInv' /\ wf' = wf
  <1>1. /\ online' = online /\ home' = home /\ rep' = rep /\ copy' = copy
        /\ acct' = acct /\ lease' = lease /\ session' = session /\ wrote' = wrote
        /\ waived' = waived /\ prot' = prot /\ fault' = fault /\ claimed' = claimed
        /\ cmds' = cmds /\ frozen' = frozen /\ tomb' = tomb /\ wf' = wf /\ pc' = pc
        /\ late' = late /\ sync' = sync /\ gen' = gen /\ recv' = "none"
        /\ Spend("mishaps", MaxMishaps) \/ spent' = spent
        /\ \/ recv = "publishing" /\ data' = [data EXCEPT ![wf.target] = wf.point]
           \/ data' = data /\ (Landed' => Landed)
    <2>1. CASE ExchangeRestore
      BY <2>1, Zenon DEF ExchangeRestore, users, faults
    <2>2. CASE TargetCrash
      <3>1. xfer' = xfer /\ (run' = "failed" \/ run' = run)
        BY <2>2, Zenon DEF TargetCrash
      <3>2. Landed' => Landed
        BY <3>1 DEF Landed
      <3> QED BY <2>2, <3>2, Zenon DEF TargetCrash, users, faults
    <2> QED BY <2>1, <2>2, Zenon
  <1>2. Types
    BY Zenon DEF RecoveryInv
  <1>3. wf \in WfRow /\ data \in [AllNodes -> Trees] /\ wf.target \in AllNodes /\ wf.point \in Trees
    <2>1. wf \in WfRow /\ data \in [AllNodes -> Trees]
      BY <1>2, Zenon DEF Types, RestoreType, WfRow, DiskType
    <2> QED BY <2>1 DEF WfRow, AllNodes
  <1>4. DiskType'
    <2>1. data' \in [AllNodes -> Trees]
      BY <1>1, <1>3
    <2> QED BY <1>1, <1>2, <2>1, Zenon DEF Types, DiskType
  <1>5. RestoreType'
    <2>1. /\ run \in {"none", "queued", "running", "ok", "failed"}
          /\ xfer \in {"none", "prepared", "consumed", "published", "failed"}
      BY <1>2, Zenon DEF Types, RestoreType
    <2>2. /\ run' \in {"none", "queued", "running", "ok", "failed"}
          /\ xfer' \in {"none", "prepared", "consumed", "published", "failed"}
          /\ recv' \in {"none", "verified", "publishing"}
      BY <1>1, <2>1 DEF ExchangeRestore, TargetCrash
    <2> QED BY <1>1, <1>2, <2>2, Zenon DEF Types, RestoreType
  <1>6. WorldType'
    BY <1>1, <1>2, SpendWorld, Zenon
  <1>7. Types'
    BY <1>1, <1>2, <1>4, <1>5, <1>6, TypesStay, Zenon DEF Types
  <1>8. Restores'
    <2> SUFFICES ASSUME wf.state \notin Closed
                 PROVE  /\ sync.state \in {"none", "late"}
                        /\ rep[wf.target] = "syncing" /\ home # wf.target
                        /\ recv' = "publishing" \/ Landed' =>
                             /\ ~(sync.state = "late" /\ sync.dst = wf.target)
                             /\ late[wf.target] = NoTree
                        /\ Landed' => data'[wf.target] = wf.point
      BY <1>1, Zenon DEF Restores
    <2>1. /\ sync.state \in {"none", "late"}
          /\ rep[wf.target] = "syncing" /\ home # wf.target
          /\ recv = "publishing" \/ Landed => ~(sync.state = "late" /\ sync.dst = wf.target)
          /\ recv = "publishing" \/ Landed => late[wf.target] = NoTree
          /\ Landed => data[wf.target] = wf.point
      BY Zenon DEF RecoveryInv, Restores
    <2>2. recv' # "publishing"
      BY <1>1
    <2>3. CASE recv = "publishing" /\ data' = [data EXCEPT ![wf.target] = wf.point]
      <3>1. data'[wf.target] = wf.point
        BY <1>3, <2>3
      <3> QED BY <2>1, <2>2, <2>3, <3>1, Zenon
    <2>4. CASE data' = data /\ (Landed' => Landed)
      BY <2>1, <2>2, <2>4, Zenon
    <2> QED BY <1>1, <2>3, <2>4, Zenon
  <1> QED BY <1>1, <1>7, <1>8, InvStays, Zenon DEF RecoveryInv

\* FinishLateExchange keeps it: an exchange left behind at the target of a restore
\* comes before the restore has published anything.
LEMMA LateExchangeKeeps ==
  ASSUME RecoveryInv, NEW n \in Computes, FinishLateExchange(n)
  PROVE  RecoveryInv' /\ wf' = wf
  <1>1. /\ online' = online /\ home' = home /\ rep' = rep /\ copy' = copy
        /\ acct' = acct /\ lease' = lease /\ session' = session /\ wrote' = wrote
        /\ waived' = waived /\ prot' = prot /\ fault' = fault /\ claimed' = claimed
        /\ cmds' = cmds /\ frozen' = frozen /\ tomb' = tomb /\ wf' = wf /\ pc' = pc
        /\ run' = run /\ xfer' = xfer /\ recv' = recv /\ sync' = sync /\ gen' = gen
        /\ spent' = spent /\ late[n] # NoTree /\ late' = [late EXCEPT ![n] = NoTree]
        /\ data' = data \/ data' = [data EXCEPT ![n] = late[n]]
    BY Zenon DEF FinishLateExchange, users, faults
  <1>2. Types
    BY Zenon DEF RecoveryInv
  <1>3. /\ late \in [Computes -> Trees \cup {NoTree}] /\ wf.target \in Computes
        /\ data \in [AllNodes -> Trees] /\ n \in AllNodes /\ wf.target \in AllNodes
    BY <1>2 DEF Types, RestoreType, DiskType, AllNodes
  <1>4. late[n] \in Trees /\ late' \in [Computes -> Trees \cup {NoTree}]
    BY <1>1, <1>3, SMTT(40)
  <1>5. data' \in [AllNodes -> Trees]
    BY <1>1, <1>3, <1>4
  <1>6. DiskType' /\ RestoreType'
    <2>1. DiskType'
      BY <1>1, <1>2, <1>5 DEF Types, DiskType
    <2>2. wf' = wf /\ pc' = pc /\ run' = run /\ xfer' = xfer /\ recv' = recv
      BY <1>1, Zenon
    <2>3. RestoreType
      BY <1>2, Zenon DEF Types
    <2>4. RestoreType'
      BY <1>4, <2>2, <2>3 DEF RestoreType
    <2> QED BY <2>1, <2>4
  <1>7. Types'
    BY <1>1, <1>2, <1>6, TypesStay, Zenon DEF Types
  <1>8. Restores'
    <2> SUFFICES ASSUME wf.state \notin Closed
                 PROVE  /\ sync.state \in {"none", "late"}
                        /\ rep[wf.target] = "syncing" /\ home # wf.target
                        /\ recv = "publishing" \/ Landed =>
                             /\ ~(sync.state = "late" /\ sync.dst = wf.target)
                             /\ late'[wf.target] = NoTree
                        /\ Landed => data'[wf.target] = wf.point
      BY <1>1, Zenon DEF Restores, Landed
    <2>1. /\ sync.state \in {"none", "late"}
          /\ rep[wf.target] = "syncing" /\ home # wf.target
          /\ recv = "publishing" \/ Landed => ~(sync.state = "late" /\ sync.dst = wf.target)
          /\ recv = "publishing" \/ Landed => late[wf.target] = NoTree
          /\ Landed => data[wf.target] = wf.point
      BY Zenon DEF RecoveryInv, Restores
    <2>2. late[wf.target] = NoTree => late'[wf.target] = NoTree /\ data'[wf.target] = data[wf.target]
      BY <1>1, <1>3
    <2> QED BY <2>1, <2>2, Zenon
  <1> QED BY <1>1, <1>7, <1>8, InvStays, Zenon DEF RecoveryInv

\* CompleteRestoreWorkflow keeps it, and moves the home to a node that has the
\* point of the workflow.
LEMMA CompleteRestoreKeeps ==
  ASSUME RecoveryInv, pc # "idle", Landed, CompleteRestoreWorkflow
  PROVE  /\ RecoveryInv'
         /\ wf'.state = "succeeded" => data[home'] = wf.point
  <1>0. wf.state \notin Closed
    BY Busy, Zenon
  <1>1. /\ online' = online /\ data' = data /\ lease' = lease /\ session' = session
        /\ wrote' = wrote /\ waived' = waived /\ claimed' = claimed /\ cmds' = cmds
        /\ frozen' = frozen /\ tomb' = tomb /\ run' = run /\ xfer' = xfer
        /\ recv' = recv /\ late' = late /\ sync' = sync /\ gen' = gen /\ spent' = spent /\ pc' = "idle"
    BY Zenon DEF CompleteRestoreWorkflow
  <1>2. Types
    BY Zenon DEF RecoveryInv
  <1>3. CASE ~RestoreCompletable
    <2>1. UNCHANGED <<online, data, users, faults, wf, run, xfer, recv, late, sync, gen>>
      BY <1>1, <1>3, Zenon DEF CompleteRestoreWorkflow, users, faults
    <2>2. pc' \in {"idle", "account", "rotate", "prepare", "start", "receipt"}
      BY <1>1
    <2> QED BY <1>1, <2>1, <2>2, WorkerMoves, Zenon
  <1>4. CASE RestoreCompletable
    <2>1. /\ MoveHome(wf.target, wf.point)
          /\ wf' = [wf EXCEPT !.state = "succeeded", !.cap = "consumed"]
          /\ RecoveryReady /\ lease.state = "ended"
      BY <1>4, Zenon DEF CompleteRestoreWorkflow, RestoreCompletable
    <2>2. wf \in WfRow
      BY <1>2, Zenon DEF Types, RestoreType, WfRow
    <2>3. wf.target \in Computes /\ wf.point \in Trees
      BY <2>2 DEF WfRow
    <2>4. ReplicaType' /\ ProtType' /\ FaultType' /\ Gates' /\ Writers'
      BY <1>1, <2>1, <2>3, MoveHomeKeeps, Zenon
    <2>5. wf' \in WfRow
      BY <2>1, <2>2, Zenon DEF WfRow, Closed
    <2>6. wf'.state = "succeeded"
      BY <2>1, <2>2 DEF WfRow
    <2>7. wf'.state \in Closed /\ pc' \in {"idle", "account", "rotate", "prepare", "start",
                                           "receipt"}
      BY <1>1, <2>6 DEF Closed
    <2>8. RestoreType'
      BY <1>1, <1>2, <2>5, <2>7, Zenon DEF Types, RestoreType, WfRow
    <2>9. Types'
      BY <1>1, <1>2, <2>4, <2>8, TypesStay, Zenon DEF Types
    <2>10. Restores'
      BY <2>7, Zenon DEF Restores
    <2>11. home' = wf.target
      BY <2>1, Zenon DEF MoveHome
    <2>12. data[wf.target] = wf.point
      BY <1>0, Zenon DEF RecoveryInv, Restores
    <2> QED BY <2>4, <2>9, <2>10, <2>11, <2>12, Zenon DEF RecoveryInv
  <1> QED BY <1>3, <1>4, Zenon

\* The end of start_restore_transfer and loadRestoreReceipt keep it: either has
\* seen that the tree was published before the home moves.
LEMMA AnswersKeep ==
  ASSUME RecoveryInv, StartDone \/ LoadRestoreReceipt
  PROVE  /\ RecoveryInv'
         /\ wf'.state = "succeeded" => data[home'] = wf.point
  <1>0. pc # "idle"
    BY DEF StartDone, LoadRestoreReceipt
  <1>1. CASE CompleteRestoreWorkflow /\ (run = "ok" \/ xfer = "published")
    BY <1>0, <1>1, CompleteRestoreKeeps, Zenon DEF Landed
  <1>2. CASE RetryRestore /\ (Spend("mishaps", MaxMishaps) \/ spent' = spent)
    BY <1>0, <1>2, RetryRestoreKeeps, Zenon
  <1>3. CASE /\ pc' = "receipt" \/ pc' = "idle"
             /\ Spend("mishaps", MaxMishaps) \/ spent' = spent
             /\ UNCHANGED <<online, data, users, faults, wf, run, xfer, recv, late, sync, gen>>
    <2>1. pc' \in {"idle", "account", "rotate", "prepare", "start", "receipt"}
      BY <1>3
    <2> QED BY <1>0, <1>3, <2>1, WorkerMoves, Zenon
  <1>4. StartDone => \/ CompleteRestoreWorkflow /\ (run = "ok" \/ xfer = "published")
                     \/ RetryRestore /\ (Spend("mishaps", MaxMishaps) \/ spent' = spent)
                     \/ /\ pc' = "receipt" \/ pc' = "idle"
                        /\ Spend("mishaps", MaxMishaps) \/ spent' = spent
                        /\ UNCHANGED <<online, data, users, faults, wf, run, xfer, recv,
                                       late, sync, gen>>
    BY Zenon DEF StartDone
  <1>5. LoadRestoreReceipt =>
          \/ CompleteRestoreWorkflow /\ (run = "ok" \/ xfer = "published")
          \/ RetryRestore /\ (Spend("mishaps", MaxMishaps) \/ spent' = spent)
    BY Zenon DEF LoadRestoreReceipt
  <1> QED BY <1>1, <1>2, <1>3, <1>4, <1>5, ZenonT(60)

------------------------------------------------------------------------------
(* All steps. *)

\* Every step keeps the invariant, and one that makes the restore succeed makes
\* a node the home that has the point of the workflow.
LEMMA NextRecoveryInv ==
  ASSUME RecoveryInv, [RecoveryNext]_recoveryVars
  PROVE  /\ RecoveryInv'
         /\ wf'.state = "succeeded" /\ wf.state # "succeeded" => data[home'] = wf.point
  <1>1. CASE UNCHANGED recoveryVars
    <2>1. /\ online' = online /\ data' = data /\ home' = home /\ rep' = rep /\ copy' = copy
          /\ acct' = acct /\ lease' = lease /\ session' = session /\ wrote' = wrote
          /\ waived' = waived /\ prot' = prot /\ fault' = fault /\ claimed' = claimed
          /\ cmds' = cmds /\ frozen' = frozen /\ tomb' = tomb /\ wf' = wf /\ pc' = pc
          /\ run' = run /\ xfer' = xfer /\ recv' = recv /\ late' = late /\ sync' = sync /\ gen' = gen
          /\ spent' = spent
      BY <1>1, Zenon DEF recoveryVars, users, faults, restore
    <2>2. Types
      BY Zenon DEF RecoveryInv
    <2>3. Types'
      BY <2>1, <2>2, TypesStay, Zenon DEF Types
    <2> QED BY <2>1, <2>3, InvStays, Zenon DEF RecoveryInv
  <1>2. CASE RestoreSteps
    BY <1>2, ClaimRestoreKeeps, RestoreAccountKeeps, RotateKeeps, PrepareKeeps,
       RunTransferKeeps, PublishRestoreKeeps, ExchangeRestoreKeeps, LateExchangeKeeps,
       AnswersKeep, ZenonT(60)
    DEF RestoreSteps
  <1>3. CASE FaultSteps
    <2>1. CASE ClaimUserDataFault \/ ClaimUserDataFaultRelease
      <3>1. wf' = wf
        BY <2>1, Zenon DEF ClaimUserDataFault, ClaimUserDataFaultRelease, ClaimOp, restore
      <3> QED BY <2>1, <3>1, ClaimsKeep, Zenon
    <2>2. ASSUME NEW op \in Op,
                 \/ FreezeUserData(op) \/ ReleaseUserData(op)
                 \/ CompleteUserDataFaultFreeze(op) \/ CompleteUserDataFaultRelease(op)
                 \/ RetryUserDataFault(op)
          PROVE  RecoveryInv' /\ wf' = wf
      <3>1. wf' = wf
        BY <2>2, Zenon
        DEF FreezeUserData, ReleaseUserData, CompleteUserDataFaultFreeze,
            CompleteUserDataFaultRelease, RetryUserDataFault, restore
      <3> QED BY <2>2, <3>1, FreezeKeeps, ReleaseKeeps, CompleteFreezeKeeps,
                 CompleteReleaseKeeps, RetryFaultKeeps, ZenonT(60)
    <2> QED BY <1>3, <2>1, <2>2, Zenon DEF FaultSteps
  <1>4. CASE BackupSteps \/ FailSnapshotWorkflow
    <2>1. wf' = wf
      BY <1>4, Zenon DEF BackupSteps, PublishBackup, ExchangeBackup,
                         CompleteSnapshotWorkflow, FailSnapshotWorkflow, restore
    <2> QED BY <1>4, <2>1, PublishBackupKeeps, ExchangeBackupKeeps, EndSnapshotKeeps, Zenon
            DEF BackupSteps
  <1>5. CASE ReconcileProtectionStates \/ Login \/ Write \/ Leave \/ Promote \/ Restart
    <2>1. wf' = wf
      BY <1>5, Zenon DEF ReconcileProtectionStates, Login, Write, Leave, Promote, Restart,
                         restore
    <2> QED BY <1>5, <2>1, ReconcileKeeps, LoginKeeps, WriteKeeps, LeaveKeeps,
               PromoteKeeps, RestartKeeps, Zenon
  <1>6. CASE TargetCrash
    BY <1>6, ExchangeRestoreKeeps, Zenon
  <1>7. CASE ReportUserDataFault
    <2>1. wf' = wf
      BY <1>7, Zenon DEF ReportUserDataFault, restore
    <2> QED BY <1>7, <2>1, ReportKeepsAll, Zenon
  <1>8. ASSUME NEW n \in AllNodes, NodeDown(n) \/ NodeUp(n) \/ CreateSnapshotWorkflow(n)
        PROVE  RecoveryInv' /\ wf' = wf
    <2>1. wf' = wf
      BY <1>8, Zenon DEF NodeDown, NodeUp, CreateSnapshotWorkflow, restore
    <2> QED BY <1>8, <2>1, NodesKeep, CreateSnapshotKeeps, Zenon
  <1>9. ASSUME NEW n \in Computes, ConfirmReplicaTakeover(n)
        PROVE  RecoveryInv' /\ wf' = wf
    <2>1. wf' = wf
      BY <1>9, Zenon DEF ConfirmReplicaTakeover, restore
    <2> QED BY <1>9, <2>1, TakeoverKeeps, Zenon
  <1>10. ASSUME NEW n \in Computes, CreateRestoreWorkflow(n)
         PROVE  RecoveryInv' /\ wf'.state # "succeeded"
    <2>1. wf'.state # "succeeded"
      BY <1>10 DEF CreateRestoreWorkflow
    <2> QED BY <1>10, <2>1, CreateRestoreKeeps, ZenonT(60)
  <1> QED BY <1>1, <1>2, <1>3, <1>4, <1>5, <1>6, <1>7, <1>8, <1>9, <1>10, ZenonT(60) DEF RecoveryNext

\* The invariant always holds.
LEMMA AlwaysIInv == RecoverySpec => []RecoveryInv
  <1>1. RecoveryInv /\ [RecoveryNext]_recoveryVars => RecoveryInv'
    BY NextRecoveryInv
  <1> QED BY InitRecoveryInv, <1>1, PTL DEF RecoverySpec

\* Every variable of recovery keeps its type.
THEOREM RecoveryTypes == RecoverySpec => []RecoveryTypeOK
  <1>1. RecoveryInv => RecoveryTypeOK
    BY TypesOK, Zenon DEF RecoveryInv
  <1> QED BY AlwaysIInv, <1>1, PTL

\* A session that can still write is at the home of the user, through any
\* interleaving of logins, fault reports, freezes, releases, take-overs
\* (ConfirmReplicaTakeover) and restores (CompleteRestoreWorkflow).
THEOREM WritersAreAtHome == RecoverySpec => []WriterAtHome
  <1>1. RecoveryInv => WriterAtHome
    BY Zenon DEF RecoveryInv, Writers, WriterAtHome
  <1> QED BY AlwaysIInv, <1>1, PTL

\* A classified fault has its gate on the node and a released one has none,
\* however often executeUserDataFault and executeUserDataFaultRelease were
\* interrupted, taken over by a new generation, or overtaken by late commands.
THEOREM GatesMatchFaults == RecoverySpec => []GateMatchesFault
  <1>1. RecoveryInv => GateMatchesFault
    BY Zenon DEF RecoveryInv, Gates, GateMatchesFault
  <1> QED BY AlwaysIInv, <1>1, PTL

\* CompleteRestoreWorkflow makes a node the home only with the tree the user
\* has agreed to, whatever a backup that came late did on that node.
THEOREM RestoresLandAsAcknowledged == RecoverySpec => RestoreLandsAsAcknowledged
  <1>1. RecoveryInv /\ [RecoveryNext]_recoveryVars =>
          [wf'.state = "succeeded" /\ wf.state # "succeeded" => data[home'] = wf.point]_recoveryVars
    BY NextRecoveryInv
  <1> QED BY AlwaysIInv, <1>1, PTL DEF RecoverySpec, RestoreLandsAsAcknowledged

===========================================================================
