--------------------------- MODULE CommandQueue ---------------------------
(***************************************************************************)
(* The durable command queue of one node: rows of agent_commands           *)
(* (store/commands.go), the Controller's handlers over them                *)
(* (controller/commands.go), and the Agent's command loop with its         *)
(* persistent result cache (agent/commands.go, agent/runtime_state.go).    *)
(*                                                                         *)
(* Time is abstract: a lease is live or it has lapsed, a queued command is *)
(* fresh or past its expires_at, and either changes at any moment.  A      *)
(* request is authenticated by the middleware first and handled later; its *)
(* answer may be lost, and a request whose sender gave up may still be     *)
(* handled.  The node's credential is a version number: it signs requests  *)
(* and it is the key a command's payload is encrypted and digested under.  *)
(***************************************************************************)
EXTENDS Naturals, Sequences, FiniteSets

CONSTANTS Ops,           \* operation ids
          RetryOps,      \* those enqueued with RequeueRetryableTerminal
          PageOps,       \* read_conflict_evidence_page: results not cached
          DrainOps,      \* types an independent-draining node may execute
          Slots,         \* capacity of commandSlots
          CacheMax,      \* results the Agent keeps, 1000 in the code
          FinishTries,   \* delivery attempts of one result, 8 in the code
          MaxGen, MaxVersion, MaxIds, MaxNet, MaxCrashes, MaxModeChanges

ASSUME CommandQueueAssumption ==
    /\ RetryOps \subseteq Ops /\ PageOps \subseteq Ops /\ DrainOps \subseteq Ops
    /\ Slots \in Nat \ {0} /\ CacheMax \in Nat \ {0} /\ FinishTries \in Nat \ {0}
    /\ MaxGen \in Nat \ {0} /\ MaxVersion \in Nat \ {0} /\ MaxIds \in Nat
    /\ MaxNet \in Nat /\ MaxCrashes \in Nat /\ MaxModeChanges \in Nat

VARIABLES epoch,       \* the active controller generation
          nodeGen,     \* nodes.controller_generation
          nodeMode,    \* nodes.control_mode
          cred,        \* the node's unrevoked agent_credentials row
          rows,        \* agent_commands by operation_id
          lastId,      \* delivery ids handed out
          prep,        \* an enqueue that has read the credential, at most one
          net,         \* authenticated result requests not handled yet
          agentVer,    \* version of the credential the Agent holds
          agentMode,   \* state.ControlMode.Mode
          highest,     \* state.HighestGeneration, persisted
          poll,        \* the poll loop
          tasks,       \* the running command goroutines
          cache,       \* state.Completed, oldest first
          disk,        \* the part of it that has been saved
          ran,         \* history: how often a delivery was executed
          forgotten,   \* history: deliveries whose result is on record no more
          crashes, modeChanges

controller == <<epoch, nodeGen, nodeMode, cred, rows, lastId, prep>>
agent == <<agentVer, agentMode, highest, poll, tasks, cache, disk>>
history == <<ran, forgotten>>
vars == <<controller, net, agent, history, crashes, modeChanges>>

Ids == 1..MaxIds
Generations == 1..MaxGen
Versions == 1..MaxVersion
Results == {"done", "error", "invalid_payload"}
Modes == {"managed", "draining", "independent"}
InFlight == {"leased", "running"}
Terminal == {"succeeded", "failed", "expired"}

Row == [state : {"queued"} \cup InFlight \cup Terminal, id : Ids,
        gen : Generations, key : Versions,
        born : Ids,           \* created_at, as the first delivery id
        live : BOOLEAN,       \* in flight and lease_until > now
        fresh : BOOLEAN,      \* queued and expires_at > now
        result : Results \cup {"none"}]
NoRow == [state |-> "none"]

\* What the Agent is told of a command it leases.
Command == [op : Ops, id : Ids, gen : Generations, key : Versions]
CommandOf(op) == [op |-> op, id |-> rows[op].id, gen |-> rows[op].gen,
                  key |-> rows[op].key]

Prep == [op : Ops, expected : 0..MaxGen, key : Versions]
Message == [id : Ids, gen : Generations, result : Results]
Poll == [at : {"idle"}]
        \cup [at : {"polling"}, hdr : Generations]
        \cup [at : {"offered"}, hdr : Generations, cmd : Command]
        \cup [at : {"begun", "replayed", "acked"}, cmd : Command]
Task == [cmd : Command, at : {"start", "executed", "report"},
         result : Results \cup {"none"}, tries : 0..FinishTries]
Entry == [id : Ids, result : Results]

TypeOK ==
    /\ epoch \in Generations /\ nodeGen \in 0..MaxGen /\ nodeMode \in Modes
    /\ cred \in [ver : Versions, gen : Generations]
    /\ rows \in [Ops -> Row \cup {NoRow}]
    /\ lastId \in 0..MaxIds
    /\ prep \subseteq Prep /\ Cardinality(prep) <= 1
    /\ net \subseteq Message
    /\ agentVer \in Versions /\ agentMode \in Modes /\ highest \in Generations
    /\ poll \in Poll
    /\ tasks \subseteq Task /\ Cardinality(tasks) <= Slots
    /\ cache \in Seq(Entry) /\ Len(cache) <= CacheMax
    /\ disk \in Seq(Entry) /\ Len(disk) <= CacheMax
    /\ ran \in [Ids -> 0..2] /\ forgotten \subseteq Ids
    /\ crashes \in 0..MaxCrashes /\ modeChanges \in 0..MaxModeChanges

Init ==
    /\ epoch = 1 /\ nodeGen = 1 /\ nodeMode = "managed"
    /\ cred = [ver |-> 1, gen |-> 1]
    /\ rows = [op \in Ops |-> NoRow]
    /\ lastId = 0 /\ prep = {} /\ net = {}
    /\ agentVer = 1 /\ agentMode = "managed" /\ highest = 1
    /\ poll = [at |-> "idle"] /\ tasks = {} /\ cache = <<>> /\ disk = <<>>
    /\ ran = [i \in Ids |-> 0] /\ forgotten = {}
    /\ crashes = 0 /\ modeChanges = 0

---------------------------------------------------------------------------
(* The Controller: enqueueing and waiting.                                 *)

SetRow(op, row) == rows' = [rows EXCEPT ![op] = row]

\* enqueueAgentCommandAtGeneration reads the credential before the insert.
PrepareEnqueue(op, expected) ==
    /\ prep = {} /\ lastId < MaxIds
    /\ (op \in RetryOps) = (expected > 0)
    /\ prep' = {[op |-> op, expected |-> expected, key |-> cred.ver]}
    /\ UNCHANGED <<epoch, nodeGen, nodeMode, cred, rows, lastId, net, agent,
                   history, crashes, modeChanges>>

Requeues(p, row) ==
    /\ row.key = p.key
    /\ row.gen = epoch
    /\ p.op \in RetryOps
    /\ row.state \in {"failed", "expired"}

DeliveryId(op) == lastId + 1

EnqueueAgentCommand ==
    \E p \in prep :
        LET row == rows[p.op]
            accepted == /\ p.expected \in {0, epoch}
                        /\ row = NoRow \/ Requeues(p, row)
        IN
        /\ IF accepted
           THEN /\ lastId' = lastId + 1
                /\ SetRow(p.op, [state |-> "queued", id |-> DeliveryId(p.op),
                                 gen |-> epoch, key |-> p.key,
                                 born |-> IF row = NoRow THEN lastId + 1 ELSE row.born,
                                 live |-> FALSE, fresh |-> TRUE, result |-> "none"])
           ELSE UNCHANGED <<rows, lastId>>
        /\ prep' = {}
        /\ UNCHANGED <<epoch, nodeGen, nodeMode, cred, net, agent, history,
                       crashes, modeChanges>>

\* A waiter asks; only then does a stale queued command become expired.
GetAgentCommandResult(op) ==
    /\ rows[op].state = "queued" /\ ~rows[op].fresh
    /\ SetRow(op, [rows[op] EXCEPT !.state = "expired"])
    /\ UNCHANGED <<epoch, nodeGen, nodeMode, cred, lastId, prep, net, agent,
                   history, crashes, modeChanges>>

Lapse(op) ==
    /\ rows[op].state \in InFlight /\ rows[op].live
    /\ SetRow(op, [rows[op] EXCEPT !.live = FALSE])
    /\ UNCHANGED <<epoch, nodeGen, nodeMode, cred, lastId, prep, net, agent,
                   history, crashes, modeChanges>>

GoStale(op) ==
    /\ rows[op].state = "queued" /\ rows[op].fresh
    /\ SetRow(op, [rows[op] EXCEPT !.fresh = FALSE])
    /\ UNCHANGED <<epoch, nodeGen, nodeMode, cred, lastId, prep, net, agent,
                   history, crashes, modeChanges>>

---------------------------------------------------------------------------
(* Generations and credentials, as far as commands see them.               *)

PromoteControllerEpoch ==
    /\ epoch < MaxGen
    /\ epoch' = epoch + 1
    /\ nodeGen' = 0
    /\ UNCHANGED <<nodeMode, cred, rows, lastId, prep, net, agent, history,
                   crashes, modeChanges>>

ExpireUnfinished(row) ==
    IF row.state \in {"queued"} \cup InFlight
    THEN [row EXCEPT !.state = "expired", !.live = FALSE, !.fresh = FALSE]
    ELSE row

\* The Agent confirmed its pending credential: at a new generation, or when
\* the old one reached its maximal age.  The bound keeps a version for every
\* generation to come.
ActivateAgentCredentialRotation ==
    /\ IF cred.gen = epoch THEN cred.ver + MaxGen - epoch < MaxVersion
       ELSE cred.ver < MaxVersion
    /\ cred' = [ver |-> cred.ver + 1, gen |-> epoch]
    /\ nodeGen' = epoch
    /\ rows' = [op \in Ops |-> ExpireUnfinished(rows[op])]
    /\ UNCHANGED <<epoch, nodeMode, lastId, prep, net, agent, history, crashes,
                   modeChanges>>

Highest(g) == IF g > highest THEN g ELSE highest

\* Every save writes the whole runtime state.
SaveGeneration(g) ==
    /\ highest' = Highest(g)
    /\ disk' = IF g > highest THEN cache ELSE disk

\* The answer to the confirmation arrives, now or with a later retry.
ActivatePendingCredential ==
    /\ agentVer # cred.ver
    /\ agentVer' = cred.ver
    /\ highest' = Highest(cred.gen)
    /\ disk' = cache
    /\ UNCHANGED <<controller, net, agentMode, poll, tasks, cache, history,
                   crashes, modeChanges>>

\* A heartbeat answer carries the active generation.
RecordControllerSuccess ==
    /\ agentVer = cred.ver /\ highest < epoch
    /\ SaveGeneration(epoch)
    /\ UNCHANGED <<controller, net, agentVer, agentMode, poll, tasks, cache,
                   history, crashes, modeChanges>>

\* A heartbeat moves either side to another mode; the bound is on leaving
\* managed mode.
ChangeMode ==
    /\ \E m \in Modes :
        /\ m # "managed" => modeChanges < MaxModeChanges
        /\ modeChanges' = IF m = "managed" THEN modeChanges ELSE modeChanges + 1
        /\ \/ m # agentMode /\ agentMode' = m /\ UNCHANGED nodeMode
           \/ m # nodeMode /\ nodeMode' = m /\ UNCHANGED agentMode
    /\ UNCHANGED <<epoch, nodeGen, cred, rows, lastId, prep, net, agentVer,
                   highest, poll, tasks, cache, disk, history, crashes>>

---------------------------------------------------------------------------
(* The poll loop.                                                          *)

\* agentAuthMiddleware: the unrevoked credential, of the active generation.
Authentic == agentVer = cred.ver /\ cred.gen = epoch

Allowed(mode, op) == mode = "managed" \/ (mode = "draining" /\ op \in DrainOps)

Idle == [at |-> "idle"]

BeginPoll ==
    /\ poll = Idle /\ agentMode # "independent"
    /\ Authentic /\ highest <= epoch
    /\ poll' = [at |-> "polling", hdr |-> epoch]
    /\ UNCHANGED <<controller, net, agentVer, agentMode, highest, tasks, cache,
                   disk, history, crashes, modeChanges>>

\* Mutant: a lapsed command is never handed out again.
LeasableOnce(op) ==
    /\ rows[op] # NoRow
    /\ rows[op].gen = epoch /\ nodeGen = epoch
    /\ Allowed(nodeMode, op)
    /\ rows[op].state = "queued" /\ rows[op].fresh

Leasable(op) ==
    /\ rows[op] # NoRow
    /\ rows[op].gen = epoch /\ nodeGen = epoch
    /\ Allowed(nodeMode, op)
    /\ \/ rows[op].state = "queued" /\ rows[op].fresh
       \/ rows[op].state \in InFlight /\ ~rows[op].live

LeaseAgentCommand(op) ==
    /\ poll.at = "polling"
    /\ Leasable(op)
    /\ \A other \in Ops : Leasable(other) => rows[op].born <= rows[other].born
    /\ SetRow(op, [rows[op] EXCEPT !.state = "leased", !.live = TRUE, !.fresh = FALSE])
    /\ poll' = [at |-> "offered", hdr |-> poll.hdr, cmd |-> CommandOf(op)]
    /\ UNCHANGED <<epoch, nodeGen, nodeMode, cred, lastId, prep, net, agentVer,
                   agentMode, highest, tasks, cache, disk, history, crashes,
                   modeChanges>>

\* The long poll ends without a command.
NoContent ==
    /\ poll.at = "polling"
    /\ poll' = Idle
    /\ SaveGeneration(poll.hdr)
    /\ UNCHANGED <<controller, net, agentVer, agentMode, tasks, cache, history,
                   crashes, modeChanges>>

\* The answer to a lease or to an acknowledgement never arrives.
PollFails ==
    /\ poll.at \in {"polling", "offered", "begun", "replayed"}
    /\ poll' = Idle
    /\ UNCHANGED <<controller, net, agentVer, agentMode, highest, tasks, cache,
                   disk, history, crashes, modeChanges>>

Running(id) == \E t \in tasks : t.cmd.id = id

\* acceptGeneration twice, commandAllowed, beginCommand.  A command that is
\* running already is only acknowledged again.
ReceiveOffer ==
    /\ poll.at = "offered"
    /\ LET seen == Highest(poll.hdr)
           taken == /\ poll.hdr >= highest
                    /\ poll.cmd.gen >= seen
                    /\ Allowed(agentMode, poll.cmd.op)
       IN poll' = IF ~taken THEN Idle
                  ELSE [at |-> IF Running(poll.cmd.id) THEN "replayed" ELSE "begun",
                        cmd |-> poll.cmd]
    /\ SaveGeneration(poll.hdr)
    /\ UNCHANGED <<controller, net, agentVer, agentMode, tasks, cache, history,
                   crashes, modeChanges>>

Acknowledges(cmd) ==
    /\ Authentic
    /\ rows[cmd.op].id = cmd.id /\ rows[cmd.op].gen = cmd.gen
    /\ rows[cmd.op].state \in InFlight /\ rows[cmd.op].live

RunningRow(cmd) ==
    SetRow(cmd.op, [rows[cmd.op] EXCEPT !.state = "running", !.live = TRUE])

\* The acknowledgement is stored, whether or not its answer arrives.
AckAgentCommand ==
    /\ poll.at \in {"begun", "replayed"}
    /\ Acknowledges(poll.cmd)
    /\ RunningRow(poll.cmd)
    /\ \/ poll' = Idle
       \/ poll.at = "begun" /\ poll' = [at |-> "acked", cmd |-> poll.cmd]
    /\ UNCHANGED <<epoch, nodeGen, nodeMode, cred, lastId, prep, net, agentVer,
                   agentMode, highest, tasks, cache, disk, history, crashes,
                   modeChanges>>

\* The loop waits here while every slot is taken.
TakeSlot ==
    /\ poll.at = "acked"
    /\ Cardinality(tasks) < Slots
    /\ tasks' = tasks \cup {[cmd |-> poll.cmd, at |-> "start",
                             result |-> "none", tries |-> 0]}
    /\ poll' = Idle
    /\ UNCHANGED <<controller, net, agentVer, agentMode, highest, cache, disk,
                   history, crashes, modeChanges>>

---------------------------------------------------------------------------
(* A running command.                                                      *)

RenewCommandLease(t) ==
    /\ Acknowledges(t.cmd) /\ rows[t.cmd.op].state = "leased"
    /\ RunningRow(t.cmd)
    /\ UNCHANGED <<epoch, nodeGen, nodeMode, cred, lastId, prep, net, agent,
                   history, crashes, modeChanges>>

Replace(t, u) == tasks' = (tasks \ {t}) \cup {u}
End(t) == tasks' = tasks \ {t}

Kept(c, id) == {i \in 1..Len(c) : c[i].id = id}

\* Mutant: the cache is not consulted.
NoCachedResult(cmd) == {}

\* cachedResult, for the command types whose results are kept.
CachedResult(cmd) ==
    {cache[i].result : i \in IF cmd.op \in PageOps THEN {} ELSE Kept(cache, cmd.id)}

ReuseResult(t) ==
    /\ t.at = "start"
    /\ \E r \in CachedResult(t.cmd) :
        Replace(t, [t EXCEPT !.at = "report", !.result = r])
    /\ UNCHANGED <<controller, net, agentVer, agentMode, highest, poll, cache,
                   disk, history, crashes, modeChanges>>

Once(n) == IF n = 0 THEN 1 ELSE 2

\* decryptCommand, then the command itself, with either outcome.
ExecuteCommand(t) ==
    /\ t.at = "start" /\ CachedResult(t.cmd) = {}
    /\ \E r \in IF t.cmd.key = agentVer THEN {"done", "error"} ELSE {"invalid_payload"} :
        /\ Replace(t, [t EXCEPT !.result = r,
                       !.at = IF t.cmd.op \in PageOps THEN "report" ELSE "executed"])
        /\ ran' = IF r = "invalid_payload" THEN ran
                  ELSE [ran EXCEPT ![t.cmd.id] = Once(@)]
    /\ forgotten' = forgotten \cup (IF t.cmd.op \in PageOps THEN {t.cmd.id} ELSE {})
    /\ UNCHANGED <<controller, net, agentVer, agentMode, highest, poll, cache,
                   disk, crashes, modeChanges>>

\* The results of other commands; a command has at most one.
Others(id) ==
    IF Kept(cache, id) = {} THEN cache
    ELSE LET i == CHOOSE i \in Kept(cache, id) : TRUE
         IN SubSeq(cache, 1, i - 1) \o SubSeq(cache, i + 1, Len(cache))

\* The newest CacheMax results, the one of t the newest.
Remembered(t) ==
    LET all == Append(Others(t.cmd.id), [id |-> t.cmd.id, result |-> t.result])
    IN IF Len(all) > CacheMax THEN SubSeq(all, Len(all) - CacheMax + 1, Len(all))
       ELSE all

InCache(c) == {c[i].id : i \in 1..Len(c)}

\* rememberResult; the error of a failed save ends the task unreported.
RememberResult(t) ==
    /\ t.at = "executed"
    /\ cache' = Remembered(t)
    /\ forgotten' = forgotten \cup (InCache(cache) \ InCache(cache'))
    /\ \/ disk' = cache' /\ Replace(t, [t EXCEPT !.at = "report"])
       \/ UNCHANGED disk /\ End(t)
    /\ UNCHANGED <<controller, net, agentVer, agentMode, highest, poll, ran,
                   crashes, modeChanges>>

\* Mutant: any delivery of the operation may be finished.
FinishesAnyDelivery(op, m) ==
    /\ rows[op] # NoRow
    /\ rows[op].gen = m.gen
    /\ rows[op].state \in InFlight

\* FinishAgentCommand asks neither for a live lease nor for the active epoch.
Finishes(op, m) ==
    /\ rows[op] # NoRow
    /\ rows[op].id = m.id /\ rows[op].gen = m.gen
    /\ rows[op].state \in InFlight

FinishAgentCommand(m) ==
    rows' = [op \in Ops |->
        IF Finishes(op, m)
        THEN [rows[op] EXCEPT !.state =
                                  IF m.result = "done" THEN "succeeded" ELSE "failed",
                              !.live = FALSE, !.result = m.result]
        ELSE rows[op]]

ResultOf(t) == [id |-> t.cmd.id, gen |-> t.cmd.gen, result |-> t.result]

\* One result request is answered "ok" and the task is over.
ReportAccepted(t) ==
    /\ t.at = "report" /\ Authentic
    /\ Finishes(t.cmd.op, ResultOf(t))
    /\ FinishAgentCommand(ResultOf(t))
    /\ End(t)
    /\ UNCHANGED <<epoch, nodeGen, nodeMode, cred, lastId, prep, net, agentVer,
                   agentMode, highest, poll, cache, disk, history, crashes,
                   modeChanges>>

\* Any other outcome: refused, lost, or handled only after the Agent gave up.
ReportUnanswered(t) ==
    /\ t.at = "report"
    /\ net' \in {net} \cup (IF Authentic /\ Cardinality(net) < MaxNet
                            THEN {net \cup {ResultOf(t)}} ELSE {})
    /\ IF highest > t.cmd.gen \/ t.tries + 1 = FinishTries THEN End(t)
       ELSE Replace(t, [t EXCEPT !.tries = @ + 1])
    /\ UNCHANGED <<controller, agentVer, agentMode, highest, poll, cache, disk,
                   history, crashes, modeChanges>>

HandleLateResult(m) ==
    /\ net' = net \ {m}
    /\ FinishAgentCommand(m)
    /\ UNCHANGED <<epoch, nodeGen, nodeMode, cred, lastId, prep, agent, history,
                   crashes, modeChanges>>

\* The Agent restarts from its runtime state file.
Crash ==
    /\ crashes < MaxCrashes
    /\ crashes' = crashes + 1
    /\ tasks' = {} /\ poll' = Idle /\ cache' = disk
    /\ forgotten' = forgotten \cup
         (({i \in Ids : ran[i] > 0} \cup InCache(cache)) \ InCache(disk))
    /\ UNCHANGED <<controller, net, agentVer, agentMode, highest, disk, ran,
                   modeChanges>>

ControllerNext ==
    \/ \E op \in Ops, g \in {0, epoch} : PrepareEnqueue(op, g)
    \/ EnqueueAgentCommand
    \/ \E op \in Ops : GetAgentCommandResult(op) \/ Lapse(op) \/ GoStale(op)
    \/ PromoteControllerEpoch
    \/ ActivateAgentCredentialRotation
    \/ ChangeMode

PollNext ==
    \/ ActivatePendingCredential
    \/ RecordControllerSuccess
    \/ BeginPoll
    \/ \E op \in Ops : LeaseAgentCommand(op)
    \/ NoContent \/ PollFails
    \/ ReceiveOffer \/ AckAgentCommand \/ TakeSlot

TaskNext(t) ==
    \/ RenewCommandLease(t)
    \/ ReuseResult(t) \/ ExecuteCommand(t) \/ RememberResult(t)
    \/ ReportAccepted(t) \/ ReportUnanswered(t)

Next ==
    \/ ControllerNext
    \/ PollNext
    \/ \E t \in tasks : TaskNext(t)
    \/ \E m \in net : HandleLateResult(m)
    \/ Crash

Spec == Init /\ [][Next]_vars

\* What keeps going while no operator intervenes: the node rotates into a new
\* generation and adopts the credential, the clock runs, requests time out,
\* the Agent polls and executes, and what is repeated for ever gets through.
Progress ==
    /\ WF_vars(cred.gen # epoch /\ ActivateAgentCredentialRotation)
    /\ WF_vars(ActivatePendingCredential) /\ WF_vars(RecordControllerSuccess)
    /\ \A op \in Ops : WF_vars(Lapse(op))
    /\ WF_vars(BeginPoll) /\ WF_vars(NoContent)
    /\ WF_vars(poll.at \in {"offered", "begun", "replayed"} /\ PollFails)
    /\ \A op \in Ops : SF_vars(LeaseAgentCommand(op))
    /\ SF_vars(ReceiveOffer) /\ SF_vars(AckAgentCommand /\ poll'.at = "acked")
    /\ WF_vars(TakeSlot)
    /\ WF_vars(\E t \in tasks : ReuseResult(t) \/ ExecuteCommand(t) \/ RememberResult(t))
    /\ WF_vars(\E t \in tasks : ReportUnanswered(t))
    /\ \A op \in Ops : SF_vars(\E t \in tasks : t.cmd.op = op /\ ReportAccepted(t))

\* The lease lasts 45 seconds and an acknowledgement is sent at once, so that
\* in the long run it is not the clock that comes in between.
AcksInTime ==
    <>[][\A op \in Ops : Lapse(op) => ~(poll.at \in {"offered", "begun"} /\ poll.cmd.op = op)]_vars

FairSpec == Spec /\ Progress /\ AcksInTime

---------------------------------------------------------------------------
\* executeAndReportCommand with cachedResult, rememberResult and beginCommand:
\* however often a delivery is leased again, it is executed once, unless a
\* crash, a failed save followed by one, or eviction loses its result.
ExecutedOnce == \A i \in Ids : i \notin forgotten => ran[i] <= 1

\* FinishAgentCommand through lost, repeated and late result requests: a row
\* says succeeded only for a delivery that was executed, and what it records
\* is the result the Agent keeps for that delivery.
ResultIsTheAgents ==
    \A op \in Ops :
        rows[op].state \in {"succeeded", "failed"} =>
            /\ rows[op].state = "succeeded" => ran[rows[op].id] > 0
            /\ rows[op].id \notin forgotten =>
                   \E i \in Kept(cache, rows[op].id) : cache[i].result = rows[op].result

\* EnqueueAgentCommand, FinishAgentCommand and the expiry sweep of a rotation:
\* a terminal row is touched only to make a failed or expired retryable
\* command of the same generation visible under a delivery id never used.
TerminalIsFinal ==
    [][\A op \in Ops : rows[op].state \in Terminal /\ rows'[op] # rows[op] =>
          /\ rows[op].state # "succeeded" /\ op \in RetryOps
          /\ rows'[op].state = "queued" /\ rows'[op].gen = rows[op].gen
          /\ rows'[op].id > lastId]_vars

\* LeaseAgentCommand's re-lease of a lapsed command, the cached result and the
\* repeated result request: a command that was handed out is settled in the
\* end unless its node leaves managed mode, whatever answers are lost, whoever
\* crashes and whoever is promoted.
LeasedCommandsSettle ==
    \A op \in Ops :
       rows[op].state \in InFlight
         ~> (rows[op].state \notin InFlight \/ {nodeMode, agentMode} # {"managed"})

\* What was handed out is settled, and what is settled stays so.
SettledForGood == LeasedCommandsSettle /\ TerminalIsFinal

\* acceptGeneration: an Agent that has seen a newer generation starts no
\* command of an older one.
OldGenerationNeverStarts ==
    [][\A t \in tasks : t.cmd.gen < highest => ~ExecuteCommand(t) \/ ran' = ran]_vars
===========================================================================
