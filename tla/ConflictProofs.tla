--------------------------- MODULE ConflictProofs ---------------------------
(***************************************************************************)
(* Proofs about conflict resolution for any nodes, paths and versions, any *)
(* number of workers and any number of mishaps, capabilities and restarts. *)
(***************************************************************************)
EXTENDS Conflict, FiniteSetTheorems, TLAPS

Transfers == [st : {"none", "prepared", "consumed", "revoked"}, cap : 0..MaxCap]

WorkerStates ==
    [pc : Steps, gen : 0..MaxGen, todo : SUBSET Nodes, src : Nodes \cup {None},
     cap : 0..MaxCap, late : BOOLEAN, loaded : Open \cup {"none"}, tr : [Nodes -> Transfers]]

\* A worker between two commands has a source and a capability, and it has
\* loaded no transfer that was prepared without one.
SoundWorker(r) ==
    /\ r.pc \in {"prepare", "start", "recover", "receipt"} =>
          r.src \in Nodes /\ r.cap \in 1..MaxCap
    /\ \A n \in Nodes : r.tr[n].st = "prepared" => r.tr[n].cap # 0

\* The types, by who writes them: the Controller's tables about the conflict,
FactsType ==
    /\ tree \in [Nodes -> Trees] /\ marked \subseteq Nodes /\ sources \subseteq Nodes
    /\ conf \in {"none", "detected", "inspecting", "awaiting_decision",
                 "resolving", "resolved"}
    /\ ev \in [Nodes -> [st : {"pending", "capturing", "retry_wait", "failed", "ready"},
                         tries : 0..MaxTries]]
    /\ choice \in Choices \cup {NoChoice}

\* ... the row of the workflow,
RowType ==
    /\ wf \in [state : Open \cup {"none", "succeeded", "failed"}, gen : 0..MaxGen,
               tries : Nat]
    /\ lease \in 0..MaxGen

\* ... its transfers, which have a capability when they are prepared,
TransfersType ==
    /\ tr \in [Nodes -> Transfers]
    /\ \A n \in Nodes : tr[n].st = "prepared" => tr[n].cap # 0

\* ... the commands,
CmdType ==
    cmd \in [Ops -> [st : {"none", "queued", "ok", "again", "failed"}, gen : 0..MaxGen]]

\* ... the workers,
AtType == at \in [Workers -> WorkerStates] /\ \A w \in Workers : SoundWorker(at[w])

\* ... the base node's disk,
BaseType ==
    /\ xfer \in [Nodes -> [st : {"none", "prepared", "published", "failed"},
                           cap : 0..MaxCap]]
    /\ input \subseteq Nodes
    /\ plan \subseteq {"plan", "decisions", "receipt"}
    /\ edited \in BOOLEAN

\* ... and the world around them: every new generation is a mishap.
WorldType ==
    /\ online \subseteq Nodes
    /\ gen \in 1..MaxGen /\ mishaps \in 0..MaxMishaps /\ restarts \in Nat
    /\ gen <= 1 + mishaps

Types ==
    /\ FactsType /\ RowType /\ TransfersType /\ CmdType /\ AtType /\ BaseType /\ WorldType

\* Before the user has decided there is no workflow, no command and no transfer.
Quiet ==
    choice = NoChoice =>
        /\ wf.state = "none" /\ plan = {}
        /\ \A n \in Nodes : tr[n].st = "none" /\ xfer[n].st = "none"
        /\ \A o \in Ops : cmd[o].st = "none"
        /\ \A w \in Workers : at[w].pc = "idle"

\* What was accepted when the user decided stays acceptable: neither the
\* sources nor their trees change any more.
Accepted ==
    choice # NoChoice =>
        /\ ValidChoices(choice)
        /\ choice.both \subseteq {p \in Paths : choice.decided[p] # None}

\* Whatever says that evidence has arrived is right.
Arrived ==
    /\ ConsumedHasArrived
    /\ \A n \in Nodes : xfer[n].st = "published" => n \in input
    /\ \A o \in Ops : o[1] \in {"start", "receipt"} /\ cmd[o].st \in {"ok", "again"}
                          => o[2] \in input

\* The receipt is behind every result, the resolution and the user's writes,
\* and the published tree is the merge that was asked for.
Published ==
    /\ "receipt" \in plan => choice # NoChoice /\ out = Selection(choice)
    /\ cmd[OpPublish].st \in {"ok", "again"} => "receipt" \in plan
    /\ conf = "resolved" => "receipt" \in plan
    /\ edited => "receipt" \in plan

IInv == Types /\ Quiet /\ Accepted /\ Arrived /\ Published

------------------------------------------------------------------------------
(* The merge. *)

\* A decision has a base, which the initial value of the operation has not.
LEMMA ChoiceIsNot ==
  ASSUME NEW c \in Choices
  PROVE  c # NoChoice
  BY ConflictAssumption DEF Choices, NoChoice

\* The versions of a path that some source has can be counted, and there is at
\* least one.
LEMMA SomeVersion ==
  ASSUME sources \subseteq Nodes, NEW p \in Paths
  PROVE  /\ Having(p) \subseteq Nodes
         /\ Cardinality(VersionsOf(p)) \in Nat
         /\ Having(p) # {} => Cardinality(VersionsOf(p)) # 0
  <1>1. Having(p) \subseteq Nodes /\ IsFiniteSet(Having(p))
    BY ConflictAssumption, FS_Subset DEF Having, ConflictAssumption
  <1>2. IsFiniteSet(VersionsOf(p))
    <2>1. [n \in Having(p) |-> tree[n][p]] \in Surjection(Having(p), VersionsOf(p))
      BY DEF VersionsOf, Surjection
    <2> QED BY <1>1, <2>1, FS_Surjection
  <1>3. Having(p) # {} => VersionsOf(p) # {}
    BY Zenon DEF VersionsOf
  <1> QED BY <1>1, <1>2, <1>3, FS_CardinalityType, FS_EmptySet

\* For a valid decision the Agent finds a source for every path that occurs,
\* and the one decided on where there is a decision.
LEMMA ChosenHas ==
  ASSUME sources \subseteq Nodes, NEW c \in Choices, ValidChoices(c),
         NEW p \in Paths
  PROVE  /\ Having(p) # {} => Chosen(c, p) \in Having(p)
         /\ c.decided[p] # None => Having(p) # {} /\ Chosen(c, p) = c.decided[p]
  <1> DEFINE k == Cardinality(VersionsOf(p))
  <1>1. k \in Nat /\ (Having(p) # {} => k # 0)
    BY SomeVersion
  <1>2. c.decided[p] # None => k > 1 /\ c.decided[p] \in Having(p)
    BY Zenon DEF ValidChoices, Difference
  <1>3. c.decided[p] = None /\ k > 1 => c.base \in Having(p)
    BY Zenon DEF ValidChoices, Difference
  <1>4. k > 1 => k # 1
    BY <1>1
  <1>5. k # 0 /\ k # 1 => k > 1
    BY <1>1
  <1> HIDE DEF k
  <1>6. CASE c.decided[p] # None
    BY <1>2, <1>4, <1>6, Zenon DEF Chosen, k
  <1>7. CASE c.decided[p] = None /\ k = 1
    <2>1. Having(p) # {} => AnyOf(Having(p)) \in Having(p)
      BY Zenon DEF AnyOf
    <2> QED BY <1>7, <2>1, Zenon DEF Chosen, k
  <1>8. CASE c.decided[p] = None /\ k # 1
    BY <1>1, <1>3, <1>5, <1>8, Zenon DEF Chosen, k
  <1> QED BY <1>6, <1>7, <1>8, Zenon

\* A valid decision can be carried out.
LEMMA ValidIsSelectable ==
  ASSUME sources \subseteq Nodes, NEW c \in Choices, ValidChoices(c)
  PROVE  Selectable(c)
  <1>1. None \notin Nodes
    BY ConflictAssumption, Zenon DEF ConflictAssumption
  <1>2. \A p \in Paths : Having(p) \subseteq Nodes
    BY SomeVersion, Zenon
  <1>3. \A p \in Paths : /\ Having(p) # {} => Chosen(c, p) \in Having(p)
                         /\ c.decided[p] # None => Having(p) # {}
    BY ChosenHas, Zenon
  <1> QED BY <1>1, <1>2, <1>3, Zenon DEF Selectable, Occurring

\* The merge of a valid decision holds every path of every source, in the
\* version decided on, and every version that is to be preserved.
LEMMA SelectionKeeps ==
  ASSUME TypeOK, NEW c \in Choices, ValidChoices(c),
         c.both \subseteq {p \in Paths : c.decided[p] # None}
  PROVE  /\ Selection(c) # None
         /\ \A n \in sources, p \in Paths : tree[n][p] # None =>
              /\ Selection(c).main[p] # None
              /\ c.decided[p] # None => Selection(c).main[p] = tree[c.decided[p]][p]
              /\ (p \in c.both \/ (c.decided[p] = None
                                    /\ c.default = "preserve_all_originals")) =>
                    \/ tree[n][p] = Selection(c).main[p]
                    \/ <<p, tree[n][p]>> \in Selection(c).kept
  <1>0. sources \subseteq Nodes /\ tree \in [Nodes -> Trees]
    BY Zenon DEF TypeOK
  <1>1. \A p \in Paths : Having(p) \subseteq Nodes
    BY <1>0, SomeVersion, Zenon
  <1>2. \A p \in Paths : /\ Having(p) # {} => Chosen(c, p) \in Having(p)
                         /\ c.decided[p] # None => Chosen(c, p) = c.decided[p]
    BY <1>0, ChosenHas, Zenon
  <1>3. \A n \in Nodes, p \in Paths : tree[n][p] \in Versions \cup {None}
    BY <1>0, Zenon DEF Trees
  <1>4. \A p \in Occurring : tree[Chosen(c, p)][p] \in Versions \cup {None}
    BY <1>1, <1>2, <1>3, Zenon DEF Occurring
  <1>5. /\ Selection(c).main = [p \in Paths |-> IF p \in Occurring THEN tree[Chosen(c, p)][p]
                                                 ELSE None]
        /\ Selection(c).kept = {k \in Occurring \X Versions :
                   /\ Preserves(c, k[1])
                   /\ k[2] \in VersionsOf(k[1]) \ {tree[Chosen(c, k[1])][k[1]]}}
    BY DEF Selection
  <1>6. Selection(c) # None
    <2>1. Selection(c).main \in Trees
      BY <1>4, <1>5, Zenon DEF Trees, Occurring
    <2>2. Selection(c).kept \in SUBSET (Paths \X Versions)
      BY <1>5 DEF Occurring
    <2>3. Selection(c) \in [main : Trees, kept : SUBSET (Paths \X Versions)]
      BY <2>1, <2>2 DEF Selection
    <2> QED BY <2>3, ConflictAssumption, Zenon DEF ConflictAssumption
  <1>7. ASSUME NEW n \in sources, NEW p \in Paths, tree[n][p] # None
        PROVE  /\ Selection(c).main[p] # None
               /\ c.decided[p] # None => Selection(c).main[p] = tree[c.decided[p]][p]
               /\ (p \in c.both \/ (c.decided[p] = None
                                     /\ c.default = "preserve_all_originals")) =>
                     \/ tree[n][p] = Selection(c).main[p]
                     \/ <<p, tree[n][p]>> \in Selection(c).kept
    <2>1. n \in Having(p) /\ p \in Occurring /\ tree[n][p] \in VersionsOf(p)
      BY <1>7, Zenon DEF Having, Occurring, VersionsOf
    <2>2. Selection(c).main[p] = tree[Chosen(c, p)][p]
      BY <1>5, <2>1, Zenon
    <2>3. Chosen(c, p) \in Having(p)
      BY <1>2, <2>1, Zenon
    <2>4. Selection(c).main[p] # None
      BY <2>2, <2>3, Zenon DEF Having
    <2>5. tree[n][p] \in Versions
      BY <1>0, <1>3, <1>7, Zenon
    <2>6. ASSUME p \in c.both \/ (c.decided[p] = None /\ c.default = "preserve_all_originals"),
                 tree[n][p] # Selection(c).main[p]
          PROVE  <<p, tree[n][p]>> \in Selection(c).kept
      <3>1. Preserves(c, p)
        BY <2>6, Zenon DEF Preserves
      <3> QED BY <1>5, <2>1, <2>2, <2>5, <2>6, <3>1
    <2> QED BY <1>2, <2>2, <2>4, <2>6, Zenon
  <1> QED BY <1>6, <1>7, Zenon

------------------------------------------------------------------------------
(* The initial states and the steps that keep the types. *)

\* The state of a fresh worker is sound.
LEMMA IdleSound == Idle \in WorkerStates /\ SoundWorker(Idle)
  <1>1. 0 \in 0..MaxGen /\ 0 \in 0..MaxCap
    BY ConflictAssumption DEF ConflictAssumption, MaxGen
  <1>2. [n \in Nodes |-> [st |-> "none", cap |-> 0]] \in [Nodes -> Transfers]
    BY <1>1 DEF Transfers
  <1>3. Idle \in WorkerStates
    BY <1>1, <1>2, Zenon DEF Idle, WorkerStates, Steps
  <1>4. Idle.pc = "idle" /\ Idle.tr = [n \in Nodes |-> [st |-> "none", cap |-> 0]]
    BY Zenon DEF Idle
  <1> QED BY <1>3, <1>4 DEF SoundWorker

\* The invariant holds when the first copies have been marked.
LEMMA InitIInv == Init => IInv
  <1> SUFFICES ASSUME Init PROVE IInv
    OBVIOUS
  <1>0. /\ 0 \in 0..MaxGen /\ 1 \in 1..MaxGen /\ 0 \in 0..MaxCap /\ 0 \in 0..MaxTries
        /\ 0 \in 0..MaxMishaps
        /\ Reported \subseteq Nodes /\ Contents \subseteq [Nodes -> Trees]
    BY ConflictAssumption DEF ConflictAssumption, MaxGen
  <1>1. FactsType
    <2>1. ev \in [Nodes -> [st : {"pending", "capturing", "retry_wait", "failed", "ready"},
                            tries : 0..MaxTries]]
      BY <1>0 DEF Init
    <2> QED BY <1>0, <2>1, Zenon DEF Init, FactsType
  <1>2. RowType /\ TransfersType /\ CmdType /\ BaseType /\ WorldType
    <2>1. RowType /\ TransfersType
      BY <1>0 DEF Init, RowType, TransfersType, Transfers
    <2>2. CmdType
      BY <1>0 DEF Init, CmdType, NoCmd
    <2>3. BaseType
      <3>1. xfer \in [Nodes -> [st : {"none", "prepared", "published", "failed"},
                                cap : 0..MaxCap]]
        BY <1>0 DEF Init
      <3> QED BY <3>1, Zenon DEF Init, BaseType
    <2>4. WorldType
      BY <1>0 DEF Init, WorldType
    <2> QED BY <2>1, <2>2, <2>3, <2>4
  <1>3. AtType
    BY IdleSound DEF Init, AtType
  <1>4. Quiet
    BY DEF Init, Quiet, NoCmd, Idle
  <1>5. Accepted
    BY DEF Init, Accepted
  <1>6. Arrived
    BY DEF Init, Arrived, ConsumedHasArrived, NoCmd
  <1>7. Published
    <2>1. OpPublish \in Ops
      BY Zenon DEF Ops
    <2>2. cmd[OpPublish].st = "none"
      BY <2>1 DEF Init, NoCmd
    <2> QED BY <2>2 DEF Init, Published
  <1> QED BY <1>1, <1>2, <1>3, <1>4, <1>5, <1>6, <1>7, Zenon DEF IInv, Types

\* The types of the parts are those of the whole.
LEMMA TypesOK == Types => TypeOK
  <1> SUFFICES ASSUME Types PROVE TypeOK
    BY Zenon
  <1>1. \A w \in Workers : at[w].pc \in Steps /\ at[w].gen \in 0..MaxGen
                             /\ at[w].todo \subseteq Nodes
    BY DEF Types, AtType, WorkerStates
  <1>2. FactsType /\ RowType /\ TransfersType /\ CmdType /\ BaseType /\ WorldType
    BY Zenon DEF Types
  <1> QED
    BY <1>1, <1>2, Zenon
    DEF TypeOK, FactsType, RowType, TransfersType, CmdType, BaseType, WorldType, Transfers

\* A mishap that is no promotion only pays for generations to come.
LEMMA WorldStays ==
  ASSUME WorldType, online' = online, gen' = gen, restarts' = restarts,
         Mishap \/ mishaps' = mishaps
  PROVE  WorldType'
  <1>0. MaxMishaps \in Nat
    BY ConflictAssumption DEF ConflictAssumption
  <1>1. CASE Mishap
    <2>1. mishaps \in Nat /\ mishaps < MaxMishaps /\ gen \in Nat /\ gen <= 1 + mishaps
      BY <1>0, <1>1 DEF WorldType, Mishap
    <2>2. mishaps + 1 \in 0..MaxMishaps /\ gen <= 1 + (mishaps + 1)
      BY <1>0, <2>1
    <2>3. mishaps' = mishaps + 1
      BY <1>1 DEF Mishap
    <2> QED BY <2>2, <2>3, Zenon DEF WorldType, MaxGen
  <1>2. CASE mishaps' = mishaps
    BY <1>2, Zenon DEF WorldType, MaxGen
  <1> QED BY <1>1, <1>2

\* Enqueueing adds a queued command at most.
LEMMA EnqueuedType ==
  ASSUME Types, NEW o \in Ops
  PROVE  /\ Enqueued(o) \in [Ops -> [st : {"none", "queued", "ok", "again", "failed"},
                                     gen : 0..MaxGen]]
         /\ \A q \in Ops : Enqueued(o)[q].st # cmd[q].st => Enqueued(o)[q].st = "queued"
  <1>1. gen \in 0..MaxGen
    BY ConflictAssumption DEF ConflictAssumption, MaxGen, Types, WorldType
  <1> QED BY <1>1 DEF Enqueued, Types, CmdType

\* A step that gives one worker a sound state keeps the types of the workers.
LEMMA OneWorker ==
  ASSUME Types, NEW w \in Workers, NEW r \in WorkerStates, SoundWorker(r),
         at' = [at EXCEPT ![w] = r]
  PROVE  AtType'
  <1>1. at \in [Workers -> WorkerStates] /\ \A v \in Workers : SoundWorker(at[v])
    BY Zenon DEF Types, AtType
  <1>2. \A v \in Workers : at'[v] = IF v = w THEN r ELSE at[v]
    BY <1>1, Zenon
  <1>3. at' \in [Workers -> WorkerStates]
    BY <1>1, Zenon
  <1> QED BY <1>1, <1>2, <1>3, Zenon DEF AtType

\* A worker that returns, or goes on to another command, stays sound.
LEMMA WorkerGoesOn ==
  ASSUME Types, NEW w \in Workers,
         \/ Return(w)
         \/ \E step \in {"move", "plan", "decide", "publish", "fail"} : Become(w, step)
         \/ /\ at[w].pc \in {"prepare", "start", "recover", "receipt"}
            /\ \E step \in {"start", "recover", "receipt"} : Become(w, step)
  PROVE  AtType'
  <1>0. at \in [Workers -> WorkerStates] /\ at[w] \in WorkerStates /\ SoundWorker(at[w])
    BY Zenon DEF Types, AtType
  <1>1. ASSUME NEW step \in Steps, Become(w, step),
               step \in {"prepare", "start", "recover", "receipt"} =>
                  at[w].pc \in {"prepare", "start", "recover", "receipt"}
        PROVE  AtType'
    <2> DEFINE r == [at[w] EXCEPT !.pc = step]
    <2>1. r \in WorkerStates
      BY <1>0 DEF WorkerStates
    <2>2. r.pc = step /\ r.src = at[w].src /\ r.cap = at[w].cap /\ r.tr = at[w].tr
      BY <1>0 DEF WorkerStates
    <2>3. at' = [at EXCEPT ![w] = r]
      BY <1>1, Zenon DEF Become
    <2> HIDE DEF r
    <2>4. SoundWorker(r)
      BY <1>0, <1>1, <2>2, Zenon DEF SoundWorker
    <2> QED BY <2>1, <2>3, <2>4, OneWorker, Zenon
  <1>2. CASE Return(w)
    BY <1>2, IdleSound, OneWorker, Zenon DEF Return
  <1> QED BY <1>1, <1>2, Zenon DEF Steps

------------------------------------------------------------------------------
(* What carries over from a step to the next. *)

\* Nothing that was decided changes when neither the decision nor, after it,
\* the sources do.
LEMMA AcceptedStays ==
  ASSUME IInv, tree' = tree, choice' = choice, choice # NoChoice => sources' = sources
  PROVE  /\ Accepted'
         /\ choice # NoChoice => Selection(choice)' = Selection(choice)
  <1>1. CASE choice = NoChoice
    BY <1>1, Zenon DEF Accepted, NoChoice
  <1>2. CASE choice # NoChoice
    <2>1. \A p : Having(p)' = Having(p)
      BY <1>2, Zenon DEF Having
    <2>2. \A p : VersionsOf(p)' = VersionsOf(p)
      BY <2>1, Zenon DEF VersionsOf
    <2>3. \A p : Difference(p)' = Difference(p)
      BY <1>2, <2>1, <2>2, Zenon DEF Difference
    <2>4. Occurring' = Occurring /\ \A p : Chosen(choice, p)' = Chosen(choice, p)
      <3>1. Occurring' = Occurring
        BY <2>1, Zenon DEF Occurring
      <3>2. ASSUME NEW p PROVE Chosen(choice, p)' = Chosen(choice, p)
        <4>1. Having(p)' = Having(p) /\ Cardinality(VersionsOf(p))' = Cardinality(VersionsOf(p))
          BY <2>1, <2>2, Zenon
        <4>2. AnyOf(Having(p))' = AnyOf(Having(p))
          BY <4>1, Zenon
        <4> QED BY <4>1, <4>2, Zenon DEF Chosen
      <3> QED BY <3>1, <3>2, Zenon
    <2>5. \A p : Preserves(choice, p)' = Preserves(choice, p)
      BY Zenon DEF Preserves
    <2>6. Selection(choice)' = Selection(choice)
      BY <2>2, <2>4, <2>5, Zenon DEF Selection
    <2>7. ValidChoices(choice)' = ValidChoices(choice)
      BY <1>2, <2>1, <2>3, Zenon DEF ValidChoices
    <2> QED BY <1>2, <2>6, <2>7, Zenon DEF IInv, Accepted
  <1> QED BY <1>1, <1>2, Zenon

\* Steps about the conflict itself leave the workflow and the base node alone,
\* and they do not resolve it.
LEMMA FactsStep ==
  ASSUME IInv, Types', tree' = tree, choice' = choice,
         choice # NoChoice => sources' = sources,
         wf' = wf, tr' = tr, base' = base, cmd' = cmd, at' = at,
         conf' = "resolved" => conf = "resolved"
  PROVE  IInv'
  <1>1. xfer' = xfer /\ input' = input /\ plan' = plan /\ out' = out /\ edited' = edited
    BY Zenon DEF base
  <1>2. Quiet'
    BY <1>1, Zenon DEF IInv, Quiet, NoChoice
  <1>3. Arrived'
    BY <1>1, Zenon DEF IInv, Arrived, ConsumedHasArrived
  <1>4. Published'
    BY <1>1, AcceptedStays, Zenon DEF IInv, Published, NoChoice, OpPublish
  <1> QED BY <1>2, <1>3, <1>4, AcceptedStays, Zenon DEF IInv

\* Steps of the workflow happen after the decision.  They add commands, count a
\* transfer as done only when its evidence has arrived, and resolve the
\* conflict only over a receipt.
LEMMA FlowStep ==
  ASSUME IInv, Types', tree' = tree, choice' = choice, sources' = sources,
         choice # NoChoice, base' = base,
         \A o \in Ops : cmd'[o].st # cmd[o].st => cmd'[o].st = "queued",
         \A n \in Nodes : tr'[n].st = "consumed" => tr[n].st = "consumed" \/ n \in input,
         conf' = "resolved" => conf = "resolved" \/ "receipt" \in plan
  PROVE  IInv'
  <1>1. xfer' = xfer /\ input' = input /\ plan' = plan /\ out' = out /\ edited' = edited
    BY Zenon DEF base
  <1>2. Quiet'
    BY Zenon DEF Quiet, NoChoice
  <1>3. Arrived'
    BY <1>1, Zenon DEF IInv, Arrived, ConsumedHasArrived
  <1>4. Published'
    <2>1. OpPublish \in Ops /\ OpPublish' = OpPublish
      BY Zenon DEF Ops, OpPublish
    <2>2. cmd'[OpPublish].st \in {"ok", "again"} => cmd[OpPublish].st \in {"ok", "again"}
      BY <2>1, Zenon
    <2> QED BY <1>1, <2>1, <2>2, AcceptedStays, Zenon DEF IInv, Published, NoChoice
  <1> QED BY <1>2, <1>3, <1>4, AcceptedStays, Zenon DEF IInv

------------------------------------------------------------------------------
(* The steps. *)

\* Finding the sources and capturing their evidence.
LEMMA EvidenceIInv ==
  ASSUME IInv, EvidenceSteps \/ \E n \in Nodes : LateReport(n)
  PROVE  IInv'
  <1>0. Types /\ FactsType /\ WorldType /\ MaxTries \in Nat \ {0} /\ Home \in Nodes
    BY ConflictAssumption DEF IInv, Types, ConflictAssumption, Nodes
  <1>1. /\ tree' = tree /\ choice' = choice /\ flow' = flow /\ base' = base
        /\ cmd' = cmd /\ at' = at /\ online' = online /\ gen' = gen /\ restarts' = restarts
        /\ choice # NoChoice => sources' = sources
        /\ conf' = "resolved" => conf = "resolved"
        /\ conf' \in {"none", "detected", "inspecting", "awaiting_decision",
                      "resolving", "resolved"}
    BY <1>0, Zenon
    DEF EvidenceSteps, OpenConflict, CaptureSources, ClaimConflictEvidenceTask,
        RetryConflictEvidenceTask, CompleteConflictEvidence, LateReport, FactsType
  <1>2. sources' \subseteq Nodes /\ marked' \subseteq Nodes
    BY <1>0, Zenon
    DEF EvidenceSteps, OpenConflict, CaptureSources, ClaimConflictEvidenceTask,
        RetryConflictEvidenceTask, CompleteConflictEvidence, LateReport, FactsType
  <1>3. Mishap \/ mishaps' = mishaps
    BY Zenon
    DEF EvidenceSteps, OpenConflict, CaptureSources, ClaimConflictEvidenceTask,
        RetryConflictEvidenceTask, CompleteConflictEvidence, LateReport
  <1>4. ev' \in [Nodes -> [st : {"pending", "capturing", "retry_wait", "failed", "ready"},
                           tries : 0..MaxTries]]
    <2>1. CASE ev' = ev
      BY <1>0, <2>1, Zenon DEF FactsType
    <2>2. CASE \E n \in Nodes : \/ ClaimConflictEvidenceTask(n) \/ RetryConflictEvidenceTask(n)
                                \/ CompleteConflictEvidence(n)
      BY <1>0, <2>2
      DEF FactsType, ClaimConflictEvidenceTask, RetryConflictEvidenceTask,
          CompleteConflictEvidence
    <2> QED BY <2>1, <2>2, Zenon DEF EvidenceSteps, OpenConflict, CaptureSources, LateReport
  <1>5. FactsType'
    BY <1>0, <1>1, <1>2, <1>4, Zenon DEF FactsType, NoChoice
  <1>6. WorldType'
    BY <1>0, <1>1, <1>3, WorldStays, Zenon
  <1>7. wf' = wf /\ lease' = lease /\ tr' = tr
    BY <1>1, Zenon DEF flow
  <1>8. RowType' /\ TransfersType' /\ CmdType' /\ AtType' /\ BaseType'
    BY <1>0, <1>1, <1>7, Zenon
    DEF Types, RowType, TransfersType, CmdType, AtType, BaseType, base
  <1>9. Types'
    BY <1>5, <1>6, <1>8, Zenon DEF Types
  <1> QED BY <1>1, <1>7, <1>9, FactsStep, Zenon

\* The user decides.  Nothing is moving, so a fresh set of inputs is right.
LEMMA StartIInv ==
  ASSUME IInv, NEW c \in Choices, StartConflictResolution(c)
  PROVE  IInv'
  <1>0. Types /\ choice = NoChoice /\ conf' = "resolving" /\ choice' = c
        /\ sources \subseteq Nodes
    BY Zenon DEF IInv, Types, FactsType, StartConflictResolution
  <1>1. /\ \A n \in Nodes : tr[n].st = "none" /\ xfer[n].st = "none"
        /\ \A o \in Ops : cmd[o].st = "none"
        /\ plan = {}
    BY <1>0, Zenon DEF IInv, Quiet
  <1>2. c # NoChoice /\ NoChoice' = NoChoice
    BY ChoiceIsNot, Zenon DEF NoChoice
  <1>3. /\ xfer' = xfer /\ plan' = plan /\ out' = out /\ edited' = edited
        /\ cmd' = cmd /\ tree' = tree /\ sources' = sources
    BY Zenon DEF StartConflictResolution
  <1>4. Types'
    <2>1. FactsType'
      BY <1>0, Zenon DEF Types, FactsType, StartConflictResolution
    <2>2. wf' \in [state : Open \cup {"none", "succeeded", "failed"}, gen : 0..MaxGen,
                   tries : Nat]
      BY <1>0 DEF Types, WorldType, StartConflictResolution, Open
    <2>3. tr' \in [Nodes -> Transfers] /\ \A n \in Nodes : tr'[n].st = "prepared" => tr'[n].cap # 0
      <3>1. 1 \in 0..MaxCap
        BY ConflictAssumption DEF ConflictAssumption
      <3>2. [st |-> "prepared", cap |-> 1] \in Transfers /\ [st |-> "prepared", cap |-> 1].cap # 0
        BY <3>1 DEF Transfers
      <3>3. tr' = [n \in Nodes |-> IF n \in sources \ {c.base}
                                   THEN [st |-> "prepared", cap |-> 1] ELSE tr[n]]
        BY Zenon DEF StartConflictResolution
      <3> QED BY <1>0, <3>2, <3>3 DEF Types, TransfersType
    <2>4. RowType' /\ TransfersType'
      BY <1>0, <2>2, <2>3, Zenon DEF Types, RowType, TransfersType, StartConflictResolution
    <2>5. BaseType'
      BY <1>0, Zenon DEF Types, BaseType, StartConflictResolution, ValidChoices
    <2>6. CmdType' /\ AtType' /\ WorldType'
      BY <1>0, Zenon DEF Types, CmdType, AtType, WorldType, StartConflictResolution
    <2> QED BY <2>1, <2>4, <2>5, <2>6, Zenon DEF Types
  <1>5. Quiet'
    BY <1>0, <1>2, Zenon DEF Quiet
  <1>6. Accepted'
    <2>1. ValidChoices(c) /\ c.both \subseteq {p \in Paths : c.decided[p] # None}
      BY Zenon DEF StartConflictResolution
    <2>2. ValidChoices(c)' <=> ValidChoices(c)
      <3>1. \A p : Having(p)' = Having(p)
        BY <1>3, Zenon DEF Having
      <3>2. \A p : VersionsOf(p)' = VersionsOf(p)
        BY <1>3, <3>1, Zenon DEF VersionsOf
      <3>3. \A p : Difference(p)' = Difference(p)
        BY <1>3, <3>1, <3>2, Zenon DEF Difference
      <3> QED BY <1>3, <3>1, <3>3, Zenon DEF ValidChoices
    <2>3. ValidChoices(choice)'
      BY <1>0, <2>1, <2>2, <1>3 DEF ValidChoices, Difference, Having, VersionsOf
    <2> QED BY <1>0, <2>1, <2>3, Zenon DEF Accepted
  <1>7. Arrived'
    <2>1. \A n \in Nodes : tr'[n].st # "consumed"
      BY <1>1 DEF StartConflictResolution
    <2> QED BY <1>1, <1>3, <2>1, Zenon DEF Arrived, ConsumedHasArrived
  <1>8. Published'
    <2>1. OpPublish \in Ops /\ OpPublish' = OpPublish
      BY Zenon DEF Ops, OpPublish
    <2>2. "receipt" \notin plan
      BY <1>1, Zenon
    <2> QED BY <1>0, <1>1, <1>3, <2>1, <2>2, Zenon DEF IInv, Published
  <1> QED BY <1>4, <1>5, <1>6, <1>7, <1>8, Zenon DEF IInv

\* The tables about the conflict are the same after most steps.
LEMMA FactsStay ==
  ASSUME Types, facts' = facts
  PROVE  /\ FactsType' /\ tree' = tree /\ choice' = choice /\ sources' = sources
         /\ conf' = conf
  BY Zenon DEF Types, FactsType, facts

\* A worker that is not idle, or a workflow that has a state, comes after the
\* decision.
LEMMA Decided ==
  ASSUME IInv, \/ \E w \in Workers : at[w].pc # "idle"
               \/ wf.state # "none"
               \/ \E o \in Ops : cmd[o].st # "none"
  PROVE  choice # NoChoice
  BY Zenon DEF IInv, Quiet

\* A retry, scheduled or given up, keeps the types of the row and the worker.
LEMMA RetryTypes ==
  ASSUME Types, NEW w \in Workers, RetryConflictResolution(w)
  PROVE  AtType' /\ RowType'
  <1>0. 0 \in 0..MaxGen /\ wf.tries + 1 \in Nat
    BY ConflictAssumption DEF ConflictAssumption, MaxGen, Types, RowType
  <1>1. Return(w) \/ Become(w, "fail")
    BY Zenon DEF RetryConflictResolution
  <1>2. AtType'
    BY <1>1, WorkerGoesOn, Zenon
  <1>3. lease' \in 0..MaxGen
    BY <1>0, Zenon DEF RetryConflictResolution, Release, Types, RowType
  <1>4. wf' = wf \/ wf' = [wf EXCEPT !.state = "retry_wait", !.tries = @ + 1]
    BY Zenon DEF RetryConflictResolution
  <1>5. wf' \in [state : Open \cup {"none", "succeeded", "failed"}, gen : 0..MaxGen,
                 tries : Nat]
    <2>1. CASE wf' = wf
      BY <2>1, Zenon DEF Types, RowType
    <2>2. CASE wf' = [wf EXCEPT !.state = "retry_wait", !.tries = @ + 1]
      BY <1>0, <2>2 DEF Types, RowType, Open
    <2> QED BY <1>4, <2>1, <2>2, Zenon
  <1> QED BY <1>2, <1>3, <1>5, Zenon DEF RowType

\* A new capability is within the bound and counts nothing as done.
LEMMA RotatedType ==
  ASSUME Types, NEW n \in Nodes, tr[n].cap < MaxCap
  PROVE  /\ Rotated(n) \in [Nodes -> Transfers]
         /\ \A m \in Nodes : Rotated(n)[m].st = "prepared" => Rotated(n)[m].cap # 0
         /\ \A m \in Nodes : Rotated(n)[m].st = "consumed" => tr[m].st = "consumed"
  <1>1. tr \in [Nodes -> Transfers] /\ \A m \in Nodes : tr[m].st = "prepared" => tr[m].cap # 0
    BY Zenon DEF Types, TransfersType
  <1>2. tr[n].cap \in 0..MaxCap /\ MaxCap \in Nat
    BY <1>1, ConflictAssumption DEF Transfers, ConflictAssumption
  <1>3. tr[n].cap + 1 \in 0..MaxCap /\ tr[n].cap + 1 # 0
    BY <1>2
  <1> DEFINE t == [st |-> "prepared", cap |-> tr[n].cap + 1]
  <1>4. t \in Transfers /\ t.st = "prepared" /\ t.cap # 0
    BY <1>3 DEF Transfers
  <1>5. Rotated(n) = [tr EXCEPT ![n] = t]
    BY Zenon DEF Rotated
  <1> HIDE DEF t
  <1> QED BY <1>1, <1>4, <1>5

\* A worker step that leaves the tables about the conflict and the base node
\* alone, adds commands only, and counts as done only what has arrived.
LEMMA WorkerStep ==
  ASSUME IInv, choice # NoChoice, facts' = facts, base' = base,
         RowType', TransfersType', CmdType', AtType',
         online' = online, gen' = gen, restarts' = restarts, Mishap \/ mishaps' = mishaps,
         \A o \in Ops : cmd'[o].st # cmd[o].st => cmd'[o].st = "queued",
         \A n \in Nodes : tr'[n].st = "consumed" => tr[n].st = "consumed" \/ n \in input
  PROVE  IInv'
  <1>1. Types
    BY Zenon DEF IInv
  <1>2. WorldType'
    BY <1>1, WorldStays, Zenon DEF Types
  <1>3. BaseType'
    BY <1>1, Zenon DEF Types, BaseType, base
  <1>4. /\ FactsType' /\ tree' = tree /\ choice' = choice /\ sources' = sources
        /\ conf' = conf
    BY <1>1, FactsStay
  <1>5. Types'
    BY <1>2, <1>3, <1>4, Zenon DEF Types
  <1> QED BY <1>4, <1>5, FlowStep, Zenon

\* Enqueueing keeps the type of the commands and answers none.
LEMMA EnqueueStep ==
  ASSUME IInv, NEW o \in Ops, cmd' = Enqueued(o)
  PROVE  CmdType' /\ \A q \in Ops : cmd'[q].st # cmd[q].st => cmd'[q].st = "queued"
  <1>1. Types
    BY Zenon DEF IInv
  <1> QED BY <1>1, EnqueuedType, Zenon DEF CmdType

\* The commands of the base node are commands.
LEMMA OpsAreOps ==
  /\ OpPlan \in Ops /\ OpDecide \in Ops /\ OpPublish \in Ops
  /\ \A kind \in {"prepare", "start", "receipt"}, n \in Nodes, c \in 1..MaxCap :
        <<kind, n, c>> \in Ops
  <1>1. OpPlan \in Ops /\ OpDecide \in Ops /\ OpPublish \in Ops
    BY Zenon DEF Ops
  <1>2. ASSUME NEW kind \in {"prepare", "start", "receipt"}, NEW n \in Nodes, NEW c \in 1..MaxCap
        PROVE  <<kind, n, c>> \in Ops
    <2>1. <<kind, n, c>> \in {"prepare", "start", "receipt"} \X Nodes \X (1..MaxCap)
      BY SMT
    <2> QED BY <2>1, Zenon DEF Ops
  <1> QED BY <1>1, <1>2, Zenon

\* Rows that no step touches.
LEMMA RowStays ==
  ASSUME Types
  PROVE  /\ wf' = wf /\ lease' = lease => RowType'
         /\ tr' = tr => TransfersType' /\ \A n \in Nodes : tr'[n].st = "consumed" =>
                                             tr[n].st = "consumed" \/ n \in input
         /\ cmd' = cmd => CmdType' /\ \A o \in Ops : cmd'[o].st # cmd[o].st =>
                                             cmd'[o].st = "queued"
  BY Zenon DEF Types, RowType, TransfersType, CmdType

\* The next source, with a capability that is still prepared or a fresh one.
LEMMA TransferSourceIInv ==
  ASSUME IInv, NEW w \in Workers, NEW n \in Nodes, TransferConflictResolutionSource(w, n)
  PROVE  IInv'
  <1> DEFINE fresh == at[w].tr[n].st = "prepared"
             cap == IF fresh THEN at[w].tr[n].cap ELSE tr[n].cap + 1
  <1>0. /\ Types /\ at \in [Workers -> WorkerStates] /\ at[w] \in WorkerStates
        /\ SoundWorker(at[w])
    BY Zenon DEF IInv, Types, AtType
  <1>1. /\ at[w].pc = "move" /\ cap <= MaxCap
        /\ facts' = facts /\ base' = base /\ online' = online /\ gen' = gen
        /\ mishaps' = mishaps /\ restarts' = restarts
    BY Zenon DEF TransferConflictResolutionSource
  <1>2. choice # NoChoice
    BY <1>1, Decided, Zenon
  <1>3. cap \in 1..MaxCap /\ (~fresh => tr[n].cap < MaxCap)
    <2>1. at[w].tr[n].cap \in 0..MaxCap /\ tr[n].cap \in 0..MaxCap
      BY <1>0 DEF WorkerStates, Types, TransfersType, Transfers
    <2>2. fresh => at[w].tr[n].cap # 0
      BY <1>0, Zenon DEF SoundWorker
    <2>3. CASE fresh
      BY <1>1, <2>1, <2>2, <2>3
    <2>4. CASE ~fresh
      BY <1>1, <2>1, <2>4, ConflictAssumption DEF ConflictAssumption
    <2> QED BY <2>3, <2>4, Zenon
  <1>4. CASE fresh \/ Rotatable
    <2>1. /\ at' = [at EXCEPT ![w].pc = "prepare", ![w].src = n, ![w].cap = cap]
          /\ cmd' = Enqueued(<<"prepare", n, cap>>)
          /\ tr' = IF fresh THEN tr ELSE Rotated(n)
          /\ wf' = wf /\ lease' = lease
      BY <1>4, Zenon DEF TransferConflictResolutionSource
    <2> HIDE DEF cap, fresh
    <2>2. AtType'
      <3> DEFINE r == [at[w] EXCEPT !.pc = "prepare", !.src = n, !.cap = cap]
      <3>0. cap \in 0..MaxCap
        BY <1>3
      <3>1. r \in WorkerStates
        BY <1>0, <3>0 DEF WorkerStates, Steps
      <3>2. r.pc = "prepare" /\ r.src = n /\ r.cap = cap /\ r.tr = at[w].tr
        BY <1>0 DEF WorkerStates
      <3>3. at' = [at EXCEPT ![w] = r]
        BY <1>0, <2>1
      <3> HIDE DEF r
      <3>4. SoundWorker(r)
        BY <1>0, <1>3, <3>2, Zenon DEF SoundWorker
      <3> QED BY <1>0, <3>1, <3>3, <3>4, OneWorker, Zenon
    <2>3. CmdType' /\ \A o \in Ops : cmd'[o].st # cmd[o].st => cmd'[o].st = "queued"
      BY <1>3, <2>1, OpsAreOps, EnqueueStep, Zenon
    <2>4. TransfersType' /\ \A m \in Nodes : tr'[m].st = "consumed" => tr[m].st = "consumed"
      BY <1>0, <1>3, <2>1, RotatedType, RowStays, Zenon DEF TransfersType
    <2> QED BY <1>0, <1>1, <1>2, <2>1, <2>2, <2>3, <2>4, RowStays, WorkerStep, Zenon
  <1>5. CASE ~(fresh \/ Rotatable)
    <2>1. RetryConflictResolution(w) /\ tr' = tr /\ cmd' = cmd
      BY <1>5, Zenon DEF TransferConflictResolutionSource
    <2> QED BY <1>0, <1>1, <1>2, <2>1, RetryTypes, RowStays, WorkerStep, Zenon
  <1> QED BY <1>4, <1>5, Zenon

\* Waiting for a command, with or without success, is a mishap at most.
LEMMA WaitMishap ==
  ASSUME NEW o, Succeeds(o) \/ GivesUp(o)
  PROVE  Mishap \/ mishaps' = mishaps
  BY Zenon DEF Succeeds, GivesUp

\* After prepare_snapshot_receive.
LEMMA EvidencePreparedIInv ==
  ASSUME IInv, NEW w \in Workers, EvidencePrepared(w)
  PROVE  IInv'
  <1>0. /\ Types /\ at[w].pc = "prepare"
        /\ facts' = facts /\ base' = base /\ online' = online /\ gen' = gen
        /\ restarts' = restarts /\ wf' = wf /\ lease' = lease /\ tr' = tr
    BY Zenon DEF IInv, EvidencePrepared, flow
  <1>1. at[w].src \in Nodes /\ at[w].cap \in 1..MaxCap
    BY <1>0, Zenon DEF Types, AtType, SoundWorker
  <1>2. choice # NoChoice
    BY <1>0, Decided, Zenon
  <1>3. Mishap \/ mishaps' = mishaps
    BY WaitMishap, Zenon DEF EvidencePrepared
  <1>4. \E kind \in {"start", "receipt"} : cmd' = Enqueued(<<kind, at[w].src, at[w].cap>>)
    BY Zenon DEF EvidencePrepared
  <1>5. CmdType' /\ \A o \in Ops : cmd'[o].st # cmd[o].st => cmd'[o].st = "queued"
    BY <1>1, <1>4, OpsAreOps, EnqueueStep, Zenon
  <1>6. AtType'
    BY <1>0, WorkerGoesOn, Zenon DEF EvidencePrepared
  <1> QED BY <1>0, <1>2, <1>3, <1>5, <1>6, RowStays, WorkerStep, Zenon

\* Evidence that has arrived is marked, and the worker goes on.
LEMMA MarkTypes ==
  ASSUME IInv, NEW w \in Workers, MarkTransferComplete(w), at[w].src \in Nodes,
         at[w].src \in input
  PROVE  /\ AtType' /\ RowType' /\ TransfersType'
         /\ \A n \in Nodes : tr'[n].st = "consumed" => tr[n].st = "consumed" \/ n \in input
  <1> DEFINE n == at[w].src
             r == [at[w] EXCEPT !.pc = "move", !.todo = @ \ {n}]
             t == [tr[n] EXCEPT !.st = "consumed"]
  <1>0. /\ Types /\ at \in [Workers -> WorkerStates] /\ at[w] \in WorkerStates
        /\ SoundWorker(at[w])
        /\ tr \in [Nodes -> Transfers] /\ \A m \in Nodes : tr[m].st = "prepared" => tr[m].cap # 0
    BY Zenon DEF IInv, Types, AtType, TransfersType
  <1>1. at' = [at EXCEPT ![w] = r] /\ tr' = [tr EXCEPT ![n] = t]
    BY <1>0 DEF MarkTransferComplete
  <1>2. r \in WorkerStates
    BY <1>0 DEF WorkerStates, Steps
  <1>3. r.pc = "move" /\ r.tr = at[w].tr
    BY <1>0 DEF WorkerStates
  <1>4. t \in Transfers /\ t.st = "consumed"
    BY <1>0 DEF Transfers
  <1> HIDE DEF r, t, n
  <1>5. SoundWorker(r)
    BY <1>0, <1>3 DEF SoundWorker
  <1>6. AtType'
    BY <1>0, <1>1, <1>2, <1>5, OneWorker, Zenon
  <1>7. \A m \in Nodes : tr'[m] = IF m = n THEN t ELSE tr[m]
    BY <1>0, <1>1, Zenon
  <1>8. tr' \in [Nodes -> Transfers]
    BY <1>0, <1>1, <1>4, Zenon
  <1>9. TransfersType'
    BY <1>0, <1>4, <1>7, <1>8 DEF TransfersType
  <1>10. \A m \in Nodes : tr'[m].st = "consumed" => tr[m].st = "consumed" \/ m \in input
    BY <1>7, Zenon DEF n
  <1>11. RowType'
    BY <1>0, RowStays, Zenon DEF MarkTransferComplete
  <1> QED BY <1>6, <1>9, <1>10, <1>11

\* After start_conflict_evidence_transfer.
LEMMA EvidenceStartedIInv ==
  ASSUME IInv, NEW w \in Workers, EvidenceStarted(w)
  PROVE  IInv'
  <1> DEFINE o == <<"start", at[w].src, at[w].cap>>
  <1>0. /\ Types /\ at[w].pc = "start"
        /\ facts' = facts /\ base' = base /\ online' = online /\ gen' = gen
        /\ restarts' = restarts
    BY Zenon DEF IInv, EvidenceStarted
  <1>1. at[w].src \in Nodes /\ at[w].cap \in 1..MaxCap
    BY <1>0, Zenon DEF Types, AtType, SoundWorker
  <1>2. choice # NoChoice
    BY <1>0, Decided, Zenon
  <1>3. Mishap \/ mishaps' = mishaps
    BY WaitMishap, Zenon DEF EvidenceStarted
  <1>4. CASE Succeeds(o) /\ cmd' = cmd /\ MarkTransferComplete(w)
    <2>1. o \in Ops /\ o[1] = "start" /\ o[2] = at[w].src
      BY <1>1, OpsAreOps
    <2>2. at[w].src \in input
      BY <1>4, <2>1, Zenon DEF IInv, Arrived, Succeeds
    <2>3. /\ AtType' /\ RowType' /\ TransfersType'
          /\ \A n \in Nodes : tr'[n].st = "consumed" => tr[n].st = "consumed" \/ n \in input
      BY <1>1, <1>4, <2>2, MarkTypes
    <2> QED BY <1>0, <1>2, <1>3, <1>4, <2>3, RowStays, WorkerStep, Zenon
  <1>5. CASE cmd' = cmd /\ RetryConflictResolution(w) /\ tr' = tr
    BY <1>0, <1>2, <1>3, <1>5, RetryTypes, RowStays, WorkerStep, Zenon
  <1>6. CASE cmd' = Enqueued(<<"receipt", at[w].src, at[w].cap>>) /\ Become(w, "receipt")
             /\ flow' = flow
    <2>1. wf' = wf /\ lease' = lease /\ tr' = tr
      BY <1>6, Zenon DEF flow
    <2>2. CmdType' /\ \A q \in Ops : cmd'[q].st # cmd[q].st => cmd'[q].st = "queued"
      BY <1>1, <1>6, OpsAreOps, EnqueueStep, Zenon
    <2>3. AtType'
      BY <1>0, <1>6, WorkerGoesOn, Zenon
    <2> QED BY <1>0, <1>2, <1>3, <2>1, <2>2, <2>3, RowStays, WorkerStep, Zenon
  <1> QED BY <1>4, <1>5, <1>6, Zenon DEF EvidenceStarted

\* After get_snapshot_receipt.
LEMMA RecoverReceiptIInv ==
  ASSUME IInv, NEW w \in Workers, RecoverConflictTransferReceipt(w)
  PROVE  IInv'
  <1> DEFINE o == <<"receipt", at[w].src, at[w].cap>>
  <1>0. /\ Types /\ at[w].pc \in {"recover", "receipt"} /\ cmd' = cmd
        /\ facts' = facts /\ base' = base /\ online' = online /\ gen' = gen
        /\ restarts' = restarts
    BY Zenon DEF IInv, RecoverConflictTransferReceipt
  <1>1. at[w].src \in Nodes /\ at[w].cap \in 1..MaxCap
    BY <1>0, Zenon DEF Types, AtType, SoundWorker
  <1>2. choice # NoChoice
    BY <1>0, Decided, Zenon
  <1>3. Mishap \/ mishaps' = mishaps
    BY WaitMishap, Zenon DEF RecoverConflictTransferReceipt
  <1>4. CASE Succeeds(o) /\ MarkTransferComplete(w)
    <2>1. o \in Ops /\ o[1] = "receipt" /\ o[2] = at[w].src
      BY <1>1, OpsAreOps
    <2>2. at[w].src \in input
      BY <1>4, <2>1, Zenon DEF IInv, Arrived, Succeeds
    <2>3. /\ AtType' /\ RowType' /\ TransfersType'
          /\ \A n \in Nodes : tr'[n].st = "consumed" => tr[n].st = "consumed" \/ n \in input
      BY <1>1, <1>4, <2>2, MarkTypes
    <2> QED BY <1>0, <1>2, <1>3, <2>3, RowStays, WorkerStep, Zenon
  <1>5. CASE /\ RetryConflictResolution(w)
             /\ tr' = IF at[w].pc = "receipt" /\ Rotatable /\ tr[at[w].src].cap < MaxCap
                      THEN Rotated(at[w].src) ELSE tr
    <2>1. TransfersType' /\ \A n \in Nodes : tr'[n].st = "consumed" =>
                                               tr[n].st = "consumed" \/ n \in input
      <3>1. CASE tr' = tr
        BY <1>0, <3>1, RowStays, Zenon
      <3>2. CASE tr' = Rotated(at[w].src) /\ tr[at[w].src].cap < MaxCap
        BY <1>0, <1>1, <3>2, RotatedType, Zenon DEF TransfersType
      <3> QED BY <1>5, <3>1, <3>2, Zenon
    <2> QED BY <1>0, <1>2, <1>3, <1>5, <2>1, RetryTypes, RowStays, WorkerStep, Zenon
  <1> QED BY <1>4, <1>5, Zenon DEF RecoverConflictTransferReceipt

\* The commands that are named after the workflow only.
LEMMA FixedCommandsIInv ==
  ASSUME IInv, NEW w \in Workers,
         AllTransferred(w) \/ ResolutionPrepared(w) \/ DecisionsApplied(w)
  PROVE  IInv'
  <1>0. /\ Types /\ at[w].pc # "idle" /\ tr' = tr
        /\ facts' = facts /\ base' = base /\ online' = online /\ gen' = gen
        /\ restarts' = restarts
    BY Zenon DEF IInv, AllTransferred, ResolutionPrepared, DecisionsApplied, flow
  <1>1. choice # NoChoice
    BY <1>0, Decided, Zenon
  <1>2. Mishap \/ mishaps' = mishaps
    BY WaitMishap, Zenon DEF AllTransferred, ResolutionPrepared, DecisionsApplied
  <1>3. CmdType' /\ \A o \in Ops : cmd'[o].st # cmd[o].st => cmd'[o].st = "queued"
    BY <1>0, RowStays, OpsAreOps, EnqueueStep, Zenon
    DEF AllTransferred, ResolutionPrepared, DecisionsApplied
  <1>4. AtType'
    BY <1>0, WorkerGoesOn, RetryTypes, Zenon
    DEF AllTransferred, ResolutionPrepared, DecisionsApplied
  <1>5. RowType'
    <2>1. CASE wf' = wf /\ (lease' = lease \/ Release(w))
      <3>1. lease' \in 0..MaxGen
        BY <1>0, <2>1, ConflictAssumption
        DEF Types, RowType, Release, MaxGen, ConflictAssumption
      <3> QED BY <1>0, <2>1, <3>1, Zenon DEF Types, RowType
    <2>2. CASE wf' = [wf EXCEPT !.state = "publishing"] /\ lease' = lease
      BY <1>0, <2>2 DEF Types, RowType, Open
    <2>3. CASE RetryConflictResolution(w)
      BY <1>0, <2>3, RetryTypes
    <2> QED
      BY <2>1, <2>2, <2>3, Zenon
      DEF AllTransferred, ResolutionPrepared, DecisionsApplied, flow
  <1> QED BY <1>0, <1>1, <1>2, <1>3, <1>4, <1>5, RowStays, WorkerStep, Zenon

\* The end of a run: CompleteConflictResolution over a receipt, or
\* FailConflictResolution.
LEMMA RunEndsIInv ==
  ASSUME IInv, NEW w \in Workers, ResolutionPublished(w) \/ RetriesExhausted(w)
  PROVE  IInv'
  <1>0. /\ Types /\ at[w].pc # "idle" /\ cmd' = cmd
        /\ tree' = tree /\ sources' = sources /\ ev' = ev /\ choice' = choice
        /\ base' = base /\ online' = online /\ gen' = gen /\ restarts' = restarts
    BY Zenon DEF IInv, ResolutionPublished, RetriesExhausted
  <1>1. choice # NoChoice
    BY <1>0, Decided, Zenon
  <1>2. Mishap \/ mishaps' = mishaps
    BY WaitMishap, Zenon DEF ResolutionPublished, RetriesExhausted
  <1>3. AtType'
    BY <1>0, WorkerGoesOn, RetryTypes, Zenon DEF ResolutionPublished, RetriesExhausted
  <1>4. /\ conf' \in {conf, "resolved", "awaiting_decision"} /\ marked' \subseteq marked
        /\ conf' = "resolved" => conf = "resolved" \/ "receipt" \in plan
    <2>1. Succeeds(OpPublish) => "receipt" \in plan
      BY Zenon DEF IInv, Published, Succeeds
    <2> QED
      BY <2>1, Zenon DEF ResolutionPublished, RetriesExhausted, FailConflictResolution
  <1>5. FactsType'
    BY <1>0, <1>4, Zenon DEF Types, FactsType, NoChoice
  <1>6. TransfersType' /\ \A n \in Nodes : tr'[n].st = "consumed" => tr[n].st = "consumed"
    <2>1. CASE tr' = tr
      BY <1>0, <2>1, RowStays, Zenon
    <2>2. CASE tr' = [n \in Nodes |-> IF tr[n].st = "prepared"
                                      THEN [tr[n] EXCEPT !.st = "revoked"] ELSE tr[n]]
      BY <1>0, <2>2 DEF Types, TransfersType, Transfers
    <2> QED
      BY <2>1, <2>2, Zenon DEF ResolutionPublished, RetriesExhausted, FailConflictResolution
  <1>7. RowType'
    <2>1. 0 \in 0..MaxGen
      BY ConflictAssumption DEF ConflictAssumption, MaxGen
    <2>2. CASE RetryConflictResolution(w)
      BY <1>0, <2>2, RetryTypes
    <2>3. CASE lease' = 0 \/ Release(w)
      <3>1. lease' \in 0..MaxGen
        BY <1>0, <2>1, <2>3, Zenon DEF Types, RowType, Release
      <3>2. \/ wf' = wf \/ wf' = [wf EXCEPT !.state = "succeeded"]
            \/ wf' = [wf EXCEPT !.state = "failed"] \/ RetryConflictResolution(w)
        BY Zenon DEF ResolutionPublished, RetriesExhausted, FailConflictResolution
      <3>3. CASE wf' = wf
        BY <1>0, <3>1, <3>3, Zenon DEF Types, RowType
      <3>4. CASE wf' = [wf EXCEPT !.state = "succeeded"] \/ wf' = [wf EXCEPT !.state = "failed"]
        BY <1>0, <3>1, <3>4 DEF Types, RowType
      <3> QED BY <2>2, <3>2, <3>3, <3>4, Zenon
    <2> QED BY <2>2, <2>3, Zenon DEF ResolutionPublished, RetriesExhausted
  <1>8. CmdType' /\ BaseType' /\ WorldType'
    BY <1>0, <1>2, RowStays, WorldStays, Zenon DEF Types, BaseType, base
  <1>9. Types'
    BY <1>3, <1>5, <1>6, <1>7, <1>8, Zenon DEF Types
  <1> QED BY <1>0, <1>1, <1>4, <1>6, <1>9, FlowStep, Zenon

\* The reconciler claims the workflow, adopts it or finds its lease lapsed.
LEMMA ReconcilerIInv ==
  ASSUME IInv, ReconcilerSteps
  PROVE  IInv'
  <1>0. /\ Types /\ cmd' = cmd /\ tr' = tr
        /\ facts' = facts /\ base' = base /\ online' = online /\ gen' = gen
        /\ mishaps' = mishaps /\ restarts' = restarts
    BY Zenon
    DEF IInv, ReconcilerSteps, AdoptStaleConflictResolution, LeaseLapses,
        ClaimConflictResolution
  <1>1. 0 \in 0..MaxGen /\ gen \in 0..MaxGen
    BY <1>0, ConflictAssumption DEF ConflictAssumption, MaxGen, Types, WorldType
  <1>2. CASE LeaseLapses
    <2>1. wf' = wf /\ lease' = 0 /\ at' = at
      BY <1>2, Zenon DEF LeaseLapses
    <2>2. RowType' /\ AtType'
      BY <1>0, <1>1, <2>1, Zenon DEF Types, RowType, AtType
    <2>3. CASE choice # NoChoice
      BY <1>0, <2>2, <2>3, RowStays, WorkerStep, Zenon
    <2>4. CASE choice = NoChoice
      <3>1. FactsType' /\ BaseType' /\ WorldType' /\ tree' = tree /\ choice' = choice
            /\ sources' = sources /\ conf' = conf
        BY <1>0, FactsStay, WorldStays, Zenon DEF Types, BaseType, base
      <3>2. Types'
        BY <1>0, <2>2, <3>1, RowStays, Zenon DEF Types
      <3> QED BY <1>0, <2>1, <3>1, <3>2, FactsStep, Zenon
    <2> QED BY <2>3, <2>4, Zenon
  <1>3. CASE AdoptStaleConflictResolution
    <2>1. /\ wf.state \in Open /\ lease' = 0 /\ at' = at
          /\ wf' = [wf EXCEPT !.state = "scheduled", !.gen = gen]
      BY <1>3, Zenon DEF AdoptStaleConflictResolution
    <2>2. RowType'
      BY <1>0, <1>1, <2>1 DEF Types, RowType, Open
    <2>3. AtType'
      BY <1>0, <2>1, Zenon DEF Types, AtType
    <2>4. choice # NoChoice
      BY <2>1, Decided, Zenon DEF Open
    <2> QED BY <1>0, <2>2, <2>3, <2>4, RowStays, WorkerStep, Zenon
  <1>4. ASSUME NEW w \in Workers, ClaimConflictResolution(w) PROVE IInv'
    <2> DEFINE resumed == IF wf.state = "retry_wait" THEN "scheduled" ELSE wf.state
               r == [Idle EXCEPT !.pc = "move", !.gen = gen, !.tr = tr,
                                 !.todo = Pending(tr), !.loaded = resumed]
    <2>1. /\ wf.state \in Open
          /\ wf' = [wf EXCEPT !.state = resumed]
          /\ lease' = lease \/ lease' = gen
          /\ at' = at \/ at' = [at EXCEPT ![w] = r]
      BY <1>4, Zenon DEF ClaimConflictResolution
    <2>2. resumed \in Open
      BY <2>1 DEF Open
    <2>3. wf' \in [state : Open \cup {"none", "succeeded", "failed"}, gen : 0..MaxGen,
                   tries : Nat]
      BY <1>0, <2>1, <2>2 DEF Types, RowType
    <2>4. RowType'
      BY <1>0, <1>1, <2>1, <2>3, Zenon DEF Types, RowType
    <2>5. choice # NoChoice
      BY <2>1, Decided, Zenon DEF Open
    <2>6. r \in WorkerStates /\ SoundWorker(r)
      <3>1. /\ tr \in [Nodes -> Transfers]
            /\ \A n \in Nodes : tr[n].st = "prepared" => tr[n].cap # 0
        BY <1>0, Zenon DEF Types, TransfersType
      <3>2. Pending(tr) \subseteq Nodes
        BY <1>0, Zenon DEF Pending, Types, FactsType
      <3> HIDE DEF resumed
      <3>3. r \in WorkerStates
        BY <1>1, <2>2, <3>1, <3>2, IdleSound DEF WorkerStates, Steps
      <3>4. r.pc = "move" /\ r.tr = tr
        BY IdleSound DEF WorkerStates
      <3> HIDE DEF r
      <3> QED BY <3>1, <3>3, <3>4 DEF SoundWorker
    <2> HIDE DEF r, resumed
    <2>7. AtType'
      <3>1. CASE at' = at
        BY <1>0, <3>1, Zenon DEF Types, AtType
      <3>2. CASE at' = [at EXCEPT ![w] = r]
        BY <1>0, <2>6, <3>2, OneWorker, Zenon
      <3> QED BY <2>1, <3>1, <3>2, Zenon
    <2> QED BY <1>0, <2>4, <2>5, <2>7, RowStays, WorkerStep, Zenon
  <1> QED BY <1>2, <1>3, <1>4, Zenon DEF ReconcilerSteps

\* The user asks again after a failure.
LEMMA RestartIInv ==
  ASSUME IInv, RestartConflictResolution
  PROVE  IInv'
  <1>0. /\ Types /\ cmd' = cmd /\ tr' = tr /\ base' = base /\ lease' = lease
        /\ tree' = tree /\ sources' = sources /\ ev' = ev /\ choice' = choice
        /\ marked' = marked /\ online' = online /\ gen' = gen /\ mishaps' = mishaps
        /\ conf' = "resolving" /\ wf.state = "failed"
    BY Zenon DEF IInv, RestartConflictResolution
  <1>1. choice # NoChoice
    BY <1>0, Decided, Zenon
  <1>2. FactsType' /\ BaseType'
    BY <1>0, Zenon DEF Types, FactsType, NoChoice, BaseType, base
  <1>3. RowType'
    <2>1. gen \in 0..MaxGen
      BY <1>0, ConflictAssumption DEF ConflictAssumption, MaxGen, Types, WorldType
    <2>2. wf' \in [state : Open \cup {"none", "succeeded", "failed"}, gen : 0..MaxGen,
                   tries : Nat]
      BY <2>1 DEF RestartConflictResolution, Open
    <2> QED BY <1>0, <2>2, Zenon DEF Types, RowType
  <1>4. WorldType'
    <2>1. restarts \in Nat
      BY <1>0, Zenon DEF Types, WorldType
    <2>2. restarts' = 0 \/ restarts' = restarts + 1
      BY Zenon DEF RestartConflictResolution
    <2>3. restarts + 1 \in Nat /\ 0 \in Nat
      BY <2>1
    <2>4. restarts' \in Nat
      BY <2>2, <2>3, Zenon
    <2> QED BY <1>0, <2>4, Zenon DEF Types, WorldType, MaxGen
  <1>5. AtType'
    <2>1. at \in [Workers -> WorkerStates] /\ \A w \in Workers : SoundWorker(at[w])
      BY <1>0, Zenon DEF Types, AtType
    <2>2. ASSUME NEW w \in Workers
          PROVE  at'[w] \in WorkerStates /\ SoundWorker(at'[w])
      <3>1. at[w] \in WorkerStates /\ SoundWorker(at[w])
        BY <2>1, Zenon
      <3>2. at'[w] = at[w] \/ at'[w] = [at[w] EXCEPT !.late = TRUE]
        BY Zenon DEF RestartConflictResolution
      <3> DEFINE r == [at[w] EXCEPT !.late = TRUE]
      <3>3. r \in WorkerStates
        BY <3>1, Zenon DEF WorkerStates
      <3>4. r.pc = at[w].pc /\ r.src = at[w].src /\ r.cap = at[w].cap /\ r.tr = at[w].tr
        BY <3>1 DEF WorkerStates
      <3> HIDE DEF r
      <3>5. SoundWorker(r)
        BY <3>1, <3>4, Zenon DEF SoundWorker
      <3> QED BY <3>1, <3>2, <3>3, <3>5, Zenon DEF r
    <2>3. at' \in [Workers -> WorkerStates]
      <3>1. at' = [w \in Workers |-> at'[w]]
        BY Zenon DEF RestartConflictResolution
      <3> QED BY <2>2, <3>1, Zenon
    <2> QED BY <2>2, <2>3, Zenon DEF AtType
  <1>6. Types'
    BY <1>0, <1>2, <1>3, <1>4, <1>5, RowStays, Zenon DEF Types
  <1> QED BY <1>0, <1>1, <1>6, RowStays, FlowStep, Zenon

\* A promotion, and nodes that come and go.
LEMMA WorldIInv ==
  ASSUME IInv, Promote \/ \E n \in Nodes : NodeDown(n) \/ NodeUp(n)
  PROVE  IInv'
  <1>0. /\ Types /\ cmd' = cmd /\ facts' = facts /\ flow' = flow /\ base' = base
        /\ restarts' = restarts
        /\ at' = at \/ at' = [w \in Workers |-> Idle]
    BY Zenon DEF IInv, Promote, NodeDown, NodeUp
  <1>1. FactsType' /\ BaseType' /\ tree' = tree /\ choice' = choice
            /\ sources' = sources /\ conf' = conf
    BY <1>0, FactsStay, Zenon DEF Types, BaseType, base
  <1>2. wf' = wf /\ lease' = lease /\ tr' = tr
    BY <1>0, Zenon DEF flow
  <1>3. AtType' /\ \A w \in Workers : at[w].pc = "idle" => at'[w].pc = "idle"
    <2>1. CASE at' = at
      BY <1>0, <2>1, Zenon DEF Types, AtType
    <2>2. CASE at' = [w \in Workers |-> Idle]
      BY <2>2, IdleSound DEF AtType, Idle
    <2> QED BY <1>0, <2>1, <2>2, Zenon
  <1>4. WorldType'
    <2>0. MaxMishaps \in Nat /\ WorldType
      BY <1>0, ConflictAssumption DEF ConflictAssumption, Types
    <2>1. CASE Promote
      <3>1. mishaps \in Nat /\ mishaps < MaxMishaps /\ gen \in Nat \ {0} /\ gen <= 1 + mishaps
        BY <2>0, <2>1 DEF WorldType, Promote, Mishap
      <3>2. /\ mishaps + 1 \in 0..MaxMishaps /\ gen + 1 <= 1 + (mishaps + 1)
            /\ gen + 1 \in 1..MaxGen
        BY <2>0, <3>1 DEF MaxGen
      <3>3. mishaps' = mishaps + 1 /\ gen' = gen + 1 /\ online' = online
        BY <2>1, Zenon DEF Promote, Mishap
      <3> QED BY <1>0, <2>0, <3>2, <3>3, Zenon DEF WorldType, MaxGen
    <2>2. ASSUME NEW n \in Nodes, NodeDown(n) \/ NodeUp(n) PROVE WorldType'
      <3>1. /\ gen' = gen /\ online' \subseteq Nodes /\ online \subseteq Nodes
            /\ Mishap \/ mishaps' = mishaps
        BY <2>0, <2>2, Zenon DEF NodeDown, NodeUp, WorldType
      <3>2. /\ mishaps \in 0..MaxMishaps /\ gen \in 1..MaxGen /\ gen <= 1 + mishaps
            /\ mishaps < MaxMishaps =>
                  mishaps + 1 \in 0..MaxMishaps /\ gen <= 1 + (mishaps + 1)
        BY <2>0 DEF WorldType
      <3> QED BY <1>0, <2>0, <3>1, <3>2, Zenon DEF WorldType, Mishap, MaxGen
    <2> QED BY <2>1, <2>2, Zenon
  <1>5. Types'
    BY <1>0, <1>1, <1>2, <1>3, <1>4, RowStays, Zenon DEF Types
  <1>6. CASE choice # NoChoice
    BY <1>0, <1>1, <1>2, <1>5, <1>6, RowStays, FlowStep, Zenon
  <1>7. CASE choice = NoChoice
    <2>1. xfer' = xfer /\ input' = input /\ plan' = plan /\ out' = out /\ edited' = edited
      BY <1>0, Zenon DEF base
    <2>2. Quiet'
      BY <1>0, <1>1, <1>2, <1>3, <1>7, <2>1, Zenon DEF IInv, Quiet, NoChoice
    <2>3. Arrived'
      BY <1>0, <1>2, <2>1, Zenon DEF IInv, Arrived, ConsumedHasArrived
    <2>4. Published'
      BY <1>0, <1>1, <2>1, AcceptedStays, Zenon DEF IInv, Published, NoChoice, OpPublish
    <2> QED BY <1>1, <1>5, <2>2, <2>3, <2>4, AcceptedStays, Zenon DEF IInv
  <1> QED BY <1>6, <1>7, Zenon

\* An answer changes the state of one command.
LEMMA AnswerType ==
  ASSUME Types, NEW o \in Ops, NEW st \in {"ok", "again", "failed"}, Answer(o, st)
  PROVE  CmdType' /\ \A q \in Ops : cmd'[q].st = IF q = o THEN st ELSE cmd[q].st
  BY DEF Types, CmdType, Answer

\* A step of an Agent leaves the Controller's tables and the workers alone.  It
\* keeps the invariant when the answer is true to what has arrived and, for
\* publish_conflict_resolution, to the receipt.
LEMMA AgentStep ==
  ASSUME IInv, NEW o \in Ops, cmd[o].st # "none",
         facts' = facts, flow' = flow, at' = at, online' = online, gen' = gen,
         restarts' = restarts, Mishap \/ mishaps' = mishaps,
         BaseType',
         \/ cmd' = cmd
         \/ \E st \in {"ok", "again", "failed"} :
               /\ Answer(o, st)
               /\ o[1] \in {"start", "receipt"} /\ st \in {"ok", "again"} => o[2] \in input'
               /\ o = OpPublish /\ st \in {"ok", "again"} => "receipt" \in plan',
         input \subseteq input',
         \A n \in Nodes : xfer'[n].st = "published" => xfer[n].st = "published" \/ n \in input',
         "receipt" \in plan => "receipt" \in plan' /\ out' = out,
         "receipt" \notin plan /\ "receipt" \in plan' => out' = Selection(choice),
         edited' => edited
  PROVE  IInv'
  <1>0. /\ Types /\ choice # NoChoice /\ choice' = choice
        /\ FactsType' /\ tree' = tree /\ choice' = choice /\ sources' = sources /\ conf' = conf
    BY Decided, FactsStay, Zenon DEF IInv
  <1>1. wf' = wf /\ lease' = lease /\ tr' = tr
    BY Zenon DEF flow
  <1>2. CmdType'
    BY <1>0, AnswerType, RowStays, Zenon
  <1>3. Types'
    BY <1>0, <1>1, <1>2, RowStays, WorldStays, Zenon DEF Types, AtType
  <1>4. \A q \in Ops :
           /\ q[1] \in {"start", "receipt"} /\ cmd'[q].st \in {"ok", "again"} => q[2] \in input'
           /\ q = OpPublish /\ cmd'[q].st \in {"ok", "again"} => "receipt" \in plan'
    <2>1. \A q \in Ops :
             /\ q[1] \in {"start", "receipt"} /\ cmd[q].st \in {"ok", "again"} => q[2] \in input
             /\ q = OpPublish /\ cmd[q].st \in {"ok", "again"} => "receipt" \in plan
      BY Zenon DEF IInv, Arrived, Published
    <2>2. CASE cmd' = cmd
      BY <2>1, <2>2, Zenon
    <2>3. ASSUME NEW st \in {"ok", "again", "failed"}, Answer(o, st),
                 o[1] \in {"start", "receipt"} /\ st \in {"ok", "again"} => o[2] \in input',
                 o = OpPublish /\ st \in {"ok", "again"} => "receipt" \in plan'
          PROVE  \A q \in Ops :
           /\ q[1] \in {"start", "receipt"} /\ cmd'[q].st \in {"ok", "again"} => q[2] \in input'
           /\ q = OpPublish /\ cmd'[q].st \in {"ok", "again"} => "receipt" \in plan'
      <3>1. \A q \in Ops : (q = o /\ cmd'[q].st = st) \/ (q # o /\ cmd'[q].st = cmd[q].st)
        BY <1>0, <2>3, AnswerType, Zenon
      <3> QED BY <2>1, <2>3, <3>1, Zenon
    <2> QED BY <2>2, <2>3, Zenon
  <1>5. Arrived'
    BY <1>1, <1>4, Zenon DEF IInv, Arrived, ConsumedHasArrived
  <1>6. Published'
    <2>1. OpPublish \in Ops /\ OpPublish' = OpPublish
      BY OpsAreOps, Zenon DEF OpPublish
    <2>2. Selection(choice)' = Selection(choice)
      BY <1>0, AcceptedStays, Zenon
    <2>3. "receipt" \in plan' => out' = Selection(choice)
      BY Zenon DEF IInv, Published
    <2> QED BY <1>0, <1>4, <2>1, <2>2, <2>3, Zenon DEF IInv, Published, NoChoice
  <1>7. Quiet'
    BY <1>0, Zenon DEF Quiet, NoChoice
  <1> QED BY <1>0, <1>3, <1>5, <1>6, <1>7, AcceptedStays, Zenon DEF IInv

\* The transfers into the base node.
LEMMA AgentTransferIInv ==
  ASSUME IInv, NEW n \in Nodes, NEW c \in 1..MaxCap,
         PrepareTransfer(n, c) \/ RunConflictEvidenceTransfer(n, c) \/ SnapshotReceipt(n, c)
  PROVE  IInv'
  <1>0. /\ Types /\ BaseType
        /\ facts' = facts /\ flow' = flow /\ at' = at /\ online' = online /\ gen' = gen
        /\ restarts' = restarts /\ plan' = plan /\ out' = out /\ edited' = edited
        /\ Mishap \/ mishaps' = mishaps
    BY Zenon
    DEF IInv, Types, PrepareTransfer, RunConflictEvidenceTransfer, SnapshotReceipt, base
  <1>1. c \in 0..MaxCap
    BY ConflictAssumption DEF ConflictAssumption
  <1>2. CASE PrepareTransfer(n, c)
    <2> DEFINE o == <<"prepare", n, c>>
    <2>1. o \in Ops /\ o[1] = "prepare" /\ o # OpPublish /\ cmd[o].st = "queued"
      BY <1>2, OpsAreOps DEF PrepareTransfer, Delivered, OpPublish
    <2>2. /\ \E st \in {"ok", "failed"} : Answer(o, st)
          /\ xfer' = xfer \/ xfer' = [xfer EXCEPT ![n] = [st |-> "prepared", cap |-> c]]
          /\ input' = input
      BY <1>2, Zenon DEF PrepareTransfer
    <2>3. BaseType' /\ \A m \in Nodes : xfer'[m].st = "published" => xfer[m].st = "published"
      <3>1. CASE xfer' = xfer
        BY <1>0, <2>2, <3>1, Zenon DEF BaseType
      <3>2. CASE xfer' = [xfer EXCEPT ![n] = [st |-> "prepared", cap |-> c]]
        <4>1. /\ xfer' \in [Nodes -> [st : {"none", "prepared", "published", "failed"},
                                      cap : 0..MaxCap]]
              /\ \A m \in Nodes : xfer'[m].st = "published" => xfer[m].st = "published"
          BY <1>0, <1>1, <3>2 DEF BaseType
        <4> QED BY <1>0, <2>2, <4>1, Zenon DEF BaseType
      <3> QED BY <2>2, <3>1, <3>2, Zenon
    <2> HIDE DEF o
    <2> QED BY <1>0, <2>1, <2>2, <2>3, AgentStep, Zenon
  <1>3. CASE RunConflictEvidenceTransfer(n, c)
    <2> DEFINE o == <<"start", n, c>>
    <2>1. o \in Ops /\ o[2] = n /\ o # OpPublish /\ cmd[o].st = "queued"
      BY <1>3, OpsAreOps DEF RunConflictEvidenceTransfer, Delivered, OpPublish
    <2>2. \/ /\ xfer' = [xfer EXCEPT ![n].st = "published"] /\ input' = input \cup {n}
             /\ \E st \in {"ok", "failed"} : Answer(o, st)
          \/ /\ xfer' = xfer \/ xfer' = [xfer EXCEPT ![n].st = "failed"]
             /\ input' = input /\ Answer(o, "failed")
      BY <1>3, Zenon DEF RunConflictEvidenceTransfer
    <2>3. /\ xfer' \in [Nodes -> [st : {"none", "prepared", "published", "failed"},
                                  cap : 0..MaxCap]]
          /\ \A m \in Nodes : xfer'[m].st = "published" => xfer[m].st = "published" \/ m \in input'
      <3>1. CASE xfer' = xfer
        BY <1>0, <3>1, Zenon DEF BaseType
      <3>2. CASE xfer' = [xfer EXCEPT ![n].st = "failed"]
        BY <1>0, <3>2 DEF BaseType
      <3>3. CASE xfer' = [xfer EXCEPT ![n].st = "published"] /\ input' = input \cup {n}
        BY <1>0, <3>3 DEF BaseType
      <3> QED BY <2>2, <3>1, <3>2, <3>3, Zenon
    <2>4. BaseType'
      BY <1>0, <2>2, <2>3, Zenon DEF BaseType
    <2>5. input \subseteq input'
      BY <2>2, Zenon
    <2>6. \E st \in {"ok", "again", "failed"} :
             Answer(o, st) /\ (st \in {"ok", "again"} => n \in input')
      BY <2>2, Zenon
    <2> HIDE DEF o
    <2> QED BY <1>0, <2>1, <2>3, <2>4, <2>5, <2>6, AgentStep, Zenon
  <1>4. CASE SnapshotReceipt(n, c)
    <2> DEFINE o == <<"receipt", n, c>>
    <2>1. o \in Ops /\ o[2] = n /\ o # OpPublish /\ cmd[o].st = "queued"
      BY <1>4, OpsAreOps DEF SnapshotReceipt, Delivered, OpPublish
    <2>2. /\ xfer' = xfer /\ input' = input
          /\ Answer(o, IF xfer[n].st = "published" THEN "ok" ELSE "failed")
      BY <1>4, Zenon DEF SnapshotReceipt, base
    <2>3. xfer[n].st = "published" => n \in input'
      BY <2>2, Zenon DEF IInv, Arrived
    <2>4. \E st \in {"ok", "again", "failed"} :
             Answer(o, st) /\ (st \in {"ok", "again"} => n \in input')
      BY <2>2, <2>3, Zenon
    <2>5. BaseType'
      BY <1>0, <2>2, Zenon DEF BaseType
    <2> HIDE DEF o
    <2> QED BY <1>0, <2>1, <2>2, <2>4, <2>5, AgentStep, Zenon
  <1> QED BY <1>2, <1>3, <1>4, Zenon

\* A command expires.
LEMMA ExpireIInv ==
  ASSUME IInv, NEW o \in Ops, ExpireCommand(o)
  PROVE  IInv'
  <1>1. /\ Types /\ BaseType /\ cmd[o].st # "none"
        /\ facts' = facts /\ flow' = flow /\ at' = at /\ online' = online /\ gen' = gen
        /\ restarts' = restarts /\ mishaps' = mishaps /\ base' = base
        /\ Answer(o, "failed")
    BY Zenon DEF IInv, Types, ExpireCommand
  <1>2. /\ xfer' = xfer /\ input' = input /\ plan' = plan /\ out' = out /\ edited' = edited
        /\ BaseType'
    BY <1>1, Zenon DEF base, BaseType
  <1> QED BY <1>1, <1>2, AgentStep, Zenon

\* The merge on the base node: the plan, the decisions and the publication.
LEMMA AgentMergeIInv ==
  ASSUME IInv, PrepareConflictResolution \/ ApplyConflictResolutionDecisions
                 \/ PublishConflictResolution
  PROVE  IInv'
  <1>0. /\ Types /\ BaseType
        /\ facts' = facts /\ flow' = flow /\ at' = at /\ online' = online /\ gen' = gen
        /\ restarts' = restarts /\ xfer' = xfer /\ input' = input
        /\ Mishap \/ mishaps' = mishaps
    BY Zenon
    DEF IInv, Types, PrepareConflictResolution, ApplyConflictResolutionDecisions,
        PublishConflictResolution, PublishMerge
  <1>1. OpPlan[1] = "plan" /\ OpDecide[1] = "decide" /\ OpPublish[1] = "publish"
    BY DEF OpPlan, OpDecide, OpPublish
  <1>2. OpPlan # OpPublish /\ OpDecide # OpPublish
    BY DEF OpPlan, OpDecide, OpPublish
  <1>3. CASE PrepareConflictResolution \/ ApplyConflictResolutionDecisions
    <2>1. \E o \in {OpPlan, OpDecide}, st \in {"ok", "failed"} :
             Answer(o, st) /\ cmd[o].st = "queued"
      BY <1>3, Zenon
      DEF PrepareConflictResolution, ApplyConflictResolutionDecisions, Delivered
    <2>2. /\ out' = out /\ edited' = edited
          /\ plan' = plan \/ plan' = plan \cup {"plan"} \/ plan' = plan \cup {"decisions"}
      BY <1>3, Zenon DEF PrepareConflictResolution, ApplyConflictResolutionDecisions
    <2>3. /\ plan' \subseteq {"plan", "decisions", "receipt"}
          /\ "receipt" \in plan' <=> "receipt" \in plan
      BY <1>0, <2>2 DEF BaseType
    <2>4. BaseType'
      BY <1>0, <2>2, <2>3, Zenon DEF BaseType
    <2> QED BY <1>0, <1>1, <1>2, <2>1, <2>2, <2>3, <2>4, OpsAreOps, AgentStep, Zenon
  <1>4. CASE PublishConflictResolution
    <2>1. cmd[OpPublish].st # "none"
      BY <1>4, Zenon DEF PublishConflictResolution, Executing, Delivered
    <2>2. /\ plan' = plan \/ plan' = plan \cup {"receipt"}
          /\ "receipt" \in plan => out' = out
          /\ edited' = edited \/ edited' = FALSE
          /\ "receipt" \notin plan /\ plan' # plan => out' = Selection(choice)
          /\ \/ cmd' = cmd
             \/ \E st \in {"ok", "again", "failed"} :
                   Answer(OpPublish, st) /\ (st \in {"ok", "again"} => "receipt" \in plan')
      BY <1>4, Zenon DEF PublishConflictResolution, PublishMerge
    <2>3. plan' \subseteq {"plan", "decisions", "receipt"}
      BY <1>0, <2>2, Zenon DEF BaseType
    <2>4. BaseType'
      BY <1>0, <2>2, <2>3, Zenon DEF BaseType
    <2>5. /\ "receipt" \in plan => "receipt" \in plan' /\ out' = out
          /\ "receipt" \notin plan /\ "receipt" \in plan' => out' = Selection(choice)
          /\ edited' => edited
      <3>1. "receipt" \in plan => "receipt" \in plan' /\ out' = out
        BY <2>2, Zenon
      <3>2. "receipt" \notin plan /\ "receipt" \in plan' => plan' # plan
        BY Zenon
      <3>3. edited' => edited
        <4>1. edited' = FALSE => ~edited'
          OBVIOUS
        <4> QED BY <2>2, <4>1, Zenon
      <3> QED BY <2>2, <3>1, <3>2, <3>3, Zenon
    <2>6. \/ cmd' = cmd
          \/ \E st \in {"ok", "again", "failed"} :
               /\ Answer(OpPublish, st)
               /\ OpPublish[1] \in {"start", "receipt"} /\ st \in {"ok", "again"} =>
                     OpPublish[2] \in input'
               /\ OpPublish = OpPublish /\ st \in {"ok", "again"} => "receipt" \in plan'
      BY <1>1, <2>2, Zenon
    <2>7. OpPublish \in Ops /\ input \subseteq input'
          /\ \A n \in Nodes : xfer'[n].st = "published" => xfer[n].st = "published" \/ n \in input'
      BY <1>0, OpsAreOps, Zenon
    <2> QED BY <1>0, <2>1, <2>4, <2>5, <2>6, <2>7, AgentStep, Zenon
  <1> QED BY <1>3, <1>4, Zenon

\* The user writes over a receipt only.
LEMMA WriteIInv ==
  ASSUME IInv, Write
  PROVE  IInv'
  <1>1. /\ facts' = facts /\ flow' = flow /\ at' = at /\ online' = online /\ gen' = gen
        /\ restarts' = restarts /\ mishaps' = mishaps /\ cmd' = cmd
        /\ xfer' = xfer /\ input' = input /\ plan' = plan /\ out' = out
        /\ conf = "resolved" /\ edited' = TRUE /\ Types
    BY Zenon DEF IInv, Write
  <1>2. /\ FactsType' /\ tree' = tree /\ choice' = choice /\ sources' = sources
        /\ conf' = conf /\ wf' = wf /\ lease' = lease /\ tr' = tr
    BY <1>1, FactsStay, Zenon DEF flow
  <1>3. Types'
    BY <1>1, <1>2, RowStays, WorldStays, Zenon DEF Types, AtType, BaseType
  <1>4. Quiet' /\ Arrived'
    BY <1>1, <1>2, Zenon DEF IInv, Quiet, NoChoice, Arrived, ConsumedHasArrived
  <1>5. Published'
    BY <1>1, <1>2, AcceptedStays, Zenon DEF IInv, Published, NoChoice, OpPublish
  <1> QED BY <1>2, <1>3, <1>4, <1>5, AcceptedStays, Zenon DEF IInv

\* Every step keeps the invariant.
LEMMA NextIInv == IInv /\ [Next]_vars => IInv'
  <1> SUFFICES ASSUME IInv, [Next]_vars PROVE IInv'
    BY Zenon
  <1>1. CASE UNCHANGED vars
    <2>1. /\ facts' = facts /\ flow' = flow /\ at' = at /\ online' = online /\ gen' = gen
          /\ restarts' = restarts /\ mishaps' = mishaps /\ cmd' = cmd /\ base' = base
      BY <1>1, Zenon DEF vars
    <2>2. /\ FactsType' /\ tree' = tree /\ choice' = choice /\ sources' = sources
          /\ conf' = conf /\ wf' = wf /\ lease' = lease /\ tr' = tr /\ Types
      BY <2>1, FactsStay, Zenon DEF flow, IInv
    <2>3. Types'
      BY <2>1, <2>2, RowStays, WorldStays, Zenon DEF Types, AtType, BaseType, base
    <2> QED BY <2>1, <2>2, <2>3, FactsStep, Zenon
  <1>2. CASE AgentSteps
    BY <1>2, AgentTransferIInv, AgentMergeIInv, ExpireIInv, Zenon DEF AgentSteps
  <1>3. ASSUME NEW w \in Workers, WorkerSteps(w) PROVE IInv'
    BY <1>3, TransferSourceIInv, EvidencePreparedIInv, EvidenceStartedIInv,
       RecoverReceiptIInv, FixedCommandsIInv, RunEndsIInv, Zenon
    DEF WorkerSteps
  <1> QED
    BY <1>1, <1>2, <1>3, EvidenceIInv, ReconcilerIInv, StartIInv, RestartIInv,
       WorldIInv, WriteIInv, Zenon
    DEF Next

------------------------------------------------------------------------------
(* The results. *)

\* The invariant holds throughout.
LEMMA Invariant == Spec => []IInv
  BY InitIInv, NextIInv, PTL DEF Spec

\* The tables, the commands, the workers and the base node's disk keep their
\* types.
THEOREM ConflictTypes == Spec => []TypeOK
  <1>1. IInv => TypeOK
    BY TypesOK, Zenon DEF IInv
  <1> QED BY <1>1, Invariant, PTL

\* Whatever validateConflictResolutionChoices accepts on the Controller,
\* buildConflictResolutionSelection can carry out on the Agent, for all
\* sources, trees and decisions.
THEOREM AcceptedIsSelectable == Spec => []ChoicesAgree
  <1>1. IInv => ChoicesAgree
    <2> SUFFICES ASSUME IInv, choice # NoChoice PROVE Selectable(choice)
      BY Zenon DEF ChoicesAgree
    <2>1. choice \in Choices /\ sources \subseteq Nodes /\ ValidChoices(choice)
      BY Zenon DEF IInv, Types, FactsType, Accepted
    <2> QED BY <2>1, ValidIsSelectable
  <1> QED BY <1>1, Invariant, PTL

\* Evidence that counts as moved is at the base node, and the resolution loses
\* no path and no version the user asked to keep, however many workers, lost
\* results, rotated capabilities, crashes and restarts there were.
THEOREM ResolutionLosesNothing == Spec => []NothingLost
  <1>1. IInv => NothingLost
    <2> SUFFICES ASSUME IInv PROVE NothingLost
      BY Zenon
    <2>1. ConsumedHasArrived
      BY Zenon DEF IInv, Arrived
    <2>2. ASSUME conf = "resolved" PROVE MergeKeepsOriginals
      <3>1. /\ choice # NoChoice /\ out = Selection(choice)
            /\ choice \in Choices /\ TypeOK /\ ValidChoices(choice)
            /\ choice.both \subseteq {p \in Paths : choice.decided[p] # None}
        BY <2>2, TypesOK, Zenon DEF IInv, Types, FactsType, Accepted, Published
      <3> QED BY <3>1, SelectionKeeps, Zenon DEF MergeKeepsOriginals
    <2> QED BY <2>1, <2>2, Zenon DEF NothingLost, MergeKeepsOriginals
  <1> QED BY <1>1, Invariant, PTL

\* No publication, repeated, late or taken up by a restarted Agent, replaces
\* what the user has written on the merged home.
THEOREM LiveHomeIsKept == Spec => LiveHomeKept
  <1>1. IInv /\ [Next]_vars => [edited => edited']_vars
    <2> SUFFICES ASSUME IInv, Next, edited PROVE edited'
      BY Zenon
    <2>1. "receipt" \in plan
      BY Zenon DEF IInv, Published
    <2>2. CASE PublishConflictResolution
      BY <2>1, <2>2, Zenon DEF PublishConflictResolution
    <2>3. CASE ~PublishConflictResolution
      BY <2>3, Zenon
      DEF Next, EvidenceSteps, OpenConflict, CaptureSources, ClaimConflictEvidenceTask,
          RetryConflictEvidenceTask, CompleteConflictEvidence, LateReport,
          AgentSteps, PrepareTransfer, RunConflictEvidenceTransfer, SnapshotReceipt,
          PrepareConflictResolution, ApplyConflictResolutionDecisions, ExpireCommand,
          ReconcilerSteps, AdoptStaleConflictResolution, LeaseLapses,
          ClaimConflictResolution, WorkerSteps, TransferConflictResolutionSource,
          EvidencePrepared, EvidenceStarted, RecoverConflictTransferReceipt,
          AllTransferred, ResolutionPrepared, DecisionsApplied, ResolutionPublished,
          RetriesExhausted, StartConflictResolution, RestartConflictResolution,
          Promote, Write, NodeDown, NodeUp, base
    <2> QED BY <2>2, <2>3, Zenon
  <1> QED BY <1>1, Invariant, PTL DEF LiveHomeKept, Spec
=============================================================================
