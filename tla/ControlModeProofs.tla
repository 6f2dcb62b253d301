------------------------ MODULE ControlModeProofs -------------------------
(***************************************************************************)
(* Proofs about module ControlMode, for any disaster policy, any number of *)
(* peers, writes, sessions, failed heartbeats, retries and promotions.     *)
(*                                                                         *)
(* GenerationNamesMode, ReturnsDrained and NoWriteForgotten hold for every *)
(* value of the constants: however often the adapter fails to answer, and  *)
(* wherever the user's home is.                                            *)
(*                                                                         *)
(* The last part is about Leadership, which gives out the generations.     *)
(***************************************************************************)
EXTENDS MCControlMode, Leadership, TLAPS

IsAgent(a) ==
    DOMAIN a = {"mode", "gen", "known", "applied", "heartbeats", "probes", "witnesses",
                "outage", "confirmed", "sessions", "pending", "marker"}
IsAdapter(t) == DOMAIN t = {"mode", "sessions", "logins", "marker", "written", "late"}

\* Two states of the Agent that know the same of the adapter.
SameFacts(a, b) == a.sessions = b.sessions /\ a.pending = b.pending /\ a.marker = b.marker

---------------------------------------------------------------------------
(* What the Agent's operators do to its state.                             *)

\* recordControllerFailure counts, and then decides on a mode.
LEMMA FailureIs ==
    ASSUME NEW a, IsAgent(a), NEW probeFailed, NEW quorum
    PROVE  LET f == RecordControllerFailure(a, probeFailed, quorum)
           IN /\ IsAgent(f) /\ SameFacts(f, a)
              /\ f.mode = a.mode => f.gen = a.gen /\ f.applied = a.applied
              /\ f.mode # a.mode => f.gen = a.gen + 1 /\ ~f.applied
              /\ f.mode \in {a.mode, "independent", "independent-draining", "controller-unreachable"}
              /\ a.mode = "independent-draining" => f.mode = a.mode
<1>1. PICK seen : seen = Observed(a, probeFailed, quorum) BY Zenon
<1>2. IsAgent(seen) /\ SameFacts(seen, a)
      /\ seen.mode = a.mode /\ seen.gen = a.gen /\ seen.applied = a.applied
    BY <1>1 DEF Observed, IsAgent, SameFacts
<1>3. PICK mode : mode = ModeAfterFailure(seen, probeFailed, quorum) BY Zenon
<1>4. /\ mode \in {a.mode, "independent", "independent-draining", "controller-unreachable"}
      /\ a.mode = "independent-draining" => mode = a.mode
    BY <1>2, <1>3, Zenon DEF ModeAfterFailure
<1>5. PICK f : f = Enter(seen, mode, a.gen + 1) BY Zenon
<1>6. f = RecordControllerFailure(a, probeFailed, quorum)
    BY <1>1, <1>3, <1>5, Zenon DEF RecordControllerFailure
<1>7. CASE mode = seen.mode
    <2>1. f = seen BY <1>5, <1>7, Zenon DEF Enter
    <2>2. f.mode = a.mode BY <1>2, <2>1, Zenon
    <2> QED BY <1>2, <1>6, <2>1, <2>2, Zenon
<1>8. CASE mode # seen.mode
    <2>1. f = [seen EXCEPT !.mode = mode, !.gen = a.gen + 1, !.applied = FALSE]
        BY <1>5, <1>8, Zenon DEF Enter
    <2>2. /\ f.mode = mode /\ f.gen = a.gen + 1 /\ f.applied = FALSE
          /\ IsAgent(f) /\ SameFacts(f, seen)
        BY <1>2, <2>1 DEF IsAgent, SameFacts
    <2>3. SameFacts(f, a) BY <1>2, <2>2, Zenon DEF SameFacts
    <2> QED BY <1>2, <1>4, <1>6, <1>8, <2>2, <2>3, Zenon
<1> QED BY <1>7, <1>8, Zenon

\* recordControllerSuccess enters the mode of the answer.
LEMMA SuccessIs ==
    ASSUME NEW a, IsAgent(a), NEW answer
    PROVE  LET f == RecordControllerSuccess(a, answer)
           IN /\ IsAgent(f) /\ SameFacts(f, a) /\ f.mode = DesiredMode(a, answer)
              /\ f.mode = a.mode => f.gen = a.gen /\ f.applied = a.applied
              /\ f.mode # a.mode => f.gen = answer.gen /\ ~f.applied
<1>1. PICK seen : seen = [a EXCEPT !.heartbeats = 0, !.probes = 0, !.witnesses = 0,
                                   !.outage = Unset, !.confirmed = Unset]
    BY Zenon
<1>2. IsAgent(seen) /\ SameFacts(seen, a)
      /\ seen.mode = a.mode /\ seen.gen = a.gen /\ seen.applied = a.applied
    BY <1>1 DEF IsAgent, SameFacts
<1>3. PICK mode : mode = DesiredMode(a, answer) BY Zenon
<1>4. PICK f : f = Enter(seen, mode, answer.gen) BY Zenon
<1>5. f = RecordControllerSuccess(a, answer)
    BY <1>1, <1>3, <1>4, Zenon DEF RecordControllerSuccess
<1>6. CASE mode = seen.mode
    <2>1. f = seen BY <1>4, <1>6, Zenon DEF Enter
    <2> QED BY <1>2, <1>3, <1>5, <1>6, <2>1, Zenon
<1>7. CASE mode # seen.mode
    <2>1. f = [seen EXCEPT !.mode = mode, !.gen = answer.gen, !.applied = FALSE]
        BY <1>4, <1>7, Zenon DEF Enter
    <2>2. /\ f.mode = mode /\ f.gen = answer.gen /\ f.applied = FALSE
          /\ IsAgent(f) /\ SameFacts(f, seen)
        BY <1>2, <2>1 DEF IsAgent, SameFacts
    <2>3. SameFacts(f, a) BY <1>2, <2>2, Zenon DEF SameFacts
    <2> QED BY <1>2, <1>3, <1>5, <1>7, <2>2, <2>3, Zenon
<1> QED BY <1>6, <1>7, Zenon

\* acceptGeneration keeps the mode and what is known of the adapter.
LEMMA KnownIs ==
    ASSUME NEW a, IsAgent(a), NEW generation
    PROVE  LET k == AcceptGeneration(a, generation)
           IN /\ IsAgent(k) /\ SameFacts(k, a) /\ k.mode = a.mode /\ k.gen = a.gen
              /\ k.applied => a.applied
<1>1. PICK k : k = AcceptGeneration(a, generation) BY Zenon
<1>2. IsAgent(k) /\ SameFacts(k, a) /\ k.mode = a.mode /\ k.gen = a.gen
    BY <1>1 DEF AcceptGeneration, IsAgent, SameFacts
<1>3. k.applied = (a.applied /\ a.known = generation)
    BY <1>1 DEF AcceptGeneration, IsAgent
<1> QED BY <1>1, <1>2, <1>3, Zenon

\* The Agent has told the adapter the mode of f and learned its facts.
Synced(f, a, t) ==
    /\ a.applied = TRUE /\ t.mode = f.mode
    /\ t.sessions = (IF f.mode = "managed" THEN 0 ELSE adapter.sessions)
    /\ a.sessions = t.sessions
    /\ a.pending = IF adapter.marker = NoMarker THEN 0 ELSE 1

\* syncTavernControlMode tells the adapter a mode it has not been told, and
\* learns how many sessions it has and whether a write is pending.
LEMMA SyncIs ==
    ASSUME NEW f, IsAgent(f), IsAdapter(adapter), NEW ok,
           NEW a, a = SyncTavernControlMode(f, ok),
           NEW t, t = AdapterAfter(f, ok)
    PROVE  /\ IsAgent(a) /\ IsAdapter(t)
           /\ a.mode = f.mode /\ a.gen = f.gen /\ a.marker = f.marker
           /\ t.marker = adapter.marker /\ t.written = adapter.written /\ t.late = adapter.late
           /\ ~f.applied /\ ok => Synced(f, a, t)
           /\ f.applied \/ ~ok => a = f /\ t = adapter
<1>1. CASE ~f.applied /\ ok
    <2>1. PICK s : s = Applied(f.mode) BY Zenon
    <2>2. /\ IsAdapter(s) /\ s.mode = f.mode /\ s.marker = adapter.marker
          /\ s.written = adapter.written /\ s.late = adapter.late
          /\ s.sessions = IF f.mode = "managed" THEN 0 ELSE adapter.sessions
        BY <2>1 DEF Applied, IsAdapter
    <2>3. t = s BY <1>1, <2>1, Zenon DEF AdapterAfter
    <2>4. PICK pending : pending = IF adapter.marker = NoMarker THEN 0 ELSE 1 BY Zenon
    <2>5. a = [f EXCEPT !.applied = TRUE, !.sessions = s.sessions, !.pending = pending]
        BY <1>1, <2>1, <2>4, Zenon DEF SyncTavernControlMode
    <2>6. /\ IsAgent(a) /\ a.mode = f.mode /\ a.gen = f.gen /\ a.marker = f.marker
          /\ a.applied = TRUE /\ a.sessions = s.sessions /\ a.pending = pending
        BY <2>5 DEF IsAgent
    <2> QED BY <1>1, <2>2, <2>3, <2>4, <2>6, Zenon DEF Synced
<1>2. CASE f.applied \/ ~ok
    BY <1>2, Zenon DEF SyncTavernControlMode, AdapterAfter
<1> QED BY <1>1, <1>2, Zenon

---------------------------------------------------------------------------
(* The heartbeat loop.                                                     *)

\* A heartbeat ends: the Agent has decided on state f, and told the adapter or
\* failed to.  It enters a new mode only under a higher generation, and leaves
\* draining only on the Controller's word.
Enters(f, applies) ==
    /\ IsAgent(f) /\ SameFacts(f, agent)
    /\ f.mode = agent.mode => f.gen = agent.gen /\ (f.applied => agent.applied)
    /\ f.mode # agent.mode => f.gen > agent.gen /\ f.gen \in Nat /\ ~f.applied
    /\ agent' = SyncTavernControlMode(f, applies) /\ adapter' = AdapterAfter(f, applies)
    /\ agent.mode \in Modes /\ (hb.at = "answered" => hb.mode \in Modes) => f.mode \in Modes
    /\ agent.mode = "independent-draining" /\ f.mode # agent.mode =>
         /\ hb.at = "answered" /\ hb.mode = f.mode
         /\ f.mode = "managed" => ~(agent.sessions > 0) /\ ~(agent.pending > 0)

\* A failed heartbeat.
LEMMA FailsEnters ==
    ASSUME IsAgent(agent), agent.gen \in Nat, HeartbeatFails
    PROVE  \E f, applies : Enters(f, applies)
<1>1. PICK probeFailed, applies, quorum :
        LET f == RecordControllerFailure(agent, probeFailed, quorum)
        IN /\ agent' = SyncTavernControlMode(f, applies) /\ adapter' = AdapterAfter(f, applies)
    BY Zenon DEF HeartbeatFails
<1>2. PICK f : f = RecordControllerFailure(agent, probeFailed, quorum) BY Zenon
<1>3. /\ IsAgent(f) /\ SameFacts(f, agent)
      /\ f.mode = agent.mode => f.gen = agent.gen /\ f.applied = agent.applied
      /\ f.mode # agent.mode => f.gen = agent.gen + 1 /\ ~f.applied
      /\ f.mode \in {agent.mode, "independent", "independent-draining", "controller-unreachable"}
      /\ agent.mode = "independent-draining" => f.mode = agent.mode
    BY <1>2, FailureIs, ZenonT(60)
<1>4. f.mode # agent.mode => f.gen > agent.gen /\ f.gen \in Nat BY <1>3
<1>5. agent.mode \in Modes => f.mode \in Modes BY <1>3 DEF Modes
<1>6. Enters(f, applies) BY <1>1, <1>2, <1>3, <1>4, <1>5, Zenon DEF Enters
<1> QED BY <1>6, Zenon

\* An answered heartbeat.
LEMMA SucceedsEnters ==
    ASSUME IsAgent(agent), agent.gen \in Nat, hb.gen \in Nat, HeartbeatSucceeds
    PROVE  \E f, applies : Enters(f, applies)
<1>1. PICK known : known = AcceptGeneration(agent, hb.known) BY Zenon
<1>2. /\ IsAgent(known) /\ SameFacts(known, agent) /\ known.mode = agent.mode
      /\ known.gen = agent.gen /\ (known.applied => agent.applied)
    BY <1>1, KnownIs, Zenon
<1>3. CASE AcceptsAnswer(known, hb)
    <2>1. PICK applies \in BOOLEAN :
            LET f == RecordControllerSuccess(known, hb)
            IN /\ agent' = SyncTavernControlMode(f, applies) /\ adapter' = AdapterAfter(f, applies)
        BY <1>1, <1>3, Zenon DEF HeartbeatSucceeds
    <2>2. PICK f : f = RecordControllerSuccess(known, hb) BY Zenon
    <2>3. /\ IsAgent(f) /\ SameFacts(f, known) /\ f.mode = DesiredMode(known, hb)
          /\ f.mode = known.mode => f.gen = known.gen /\ f.applied = known.applied
          /\ f.mode # known.mode => f.gen = hb.gen /\ ~f.applied
        <3>1. IsAgent(known) BY <1>2, Zenon
        <3> QED BY <2>2, <3>1, SuccessIs
    <2>4. SameFacts(f, agent) BY <1>2, <2>3, Zenon DEF SameFacts
    <2>5. /\ hb.gen >= known.gen
          /\ ~(hb.gen = known.gen /\ f.mode # known.mode)
          /\ ~(/\ known.mode = "independent-draining" /\ f.mode = "managed"
               /\ known.sessions > 0 \/ known.pending > 0)
        BY <1>3, <2>3, Zenon DEF AcceptsAnswer
    <2>6. f.mode # agent.mode => f.gen > agent.gen /\ f.gen \in Nat
        BY <1>2, <2>3, <2>5
    <2>7. agent.mode = "independent-draining" /\ f.mode # agent.mode =>
            /\ hb.at = "answered" /\ hb.mode = f.mode
            /\ f.mode = "managed" => ~(agent.sessions > 0) /\ ~(agent.pending > 0)
        <3>1. agent.mode = "independent-draining" => hb.mode = f.mode
            BY <1>2, <2>3 DEF DesiredMode
        <3>2. hb.at = "answered" BY Zenon DEF HeartbeatSucceeds
        <3>3. agent.mode = "independent-draining" /\ f.mode = "managed" =>
                ~(agent.sessions > 0) /\ ~(agent.pending > 0)
            BY <1>2, <2>5, Zenon DEF SameFacts
        <3> QED BY <3>1, <3>2, <3>3, Zenon
    <2>8. agent.mode \in Modes /\ (hb.at = "answered" => hb.mode \in Modes) => f.mode \in Modes
        BY <2>3 DEF DesiredMode, Modes, HeartbeatSucceeds
    <2>9. Enters(f, applies)
        BY <1>2, <2>1, <2>2, <2>3, <2>4, <2>6, <2>7, <2>8, Zenon DEF Enters
    <2> QED BY <2>9, Zenon
<1>4. CASE ~AcceptsAnswer(known, hb)
    <2>1. agent' = known /\ adapter' = adapter BY <1>1, <1>4, Zenon DEF HeartbeatSucceeds
    <2>2. agent' = SyncTavernControlMode(known, FALSE) /\ adapter' = AdapterAfter(known, FALSE)
        BY <2>1, Zenon DEF SyncTavernControlMode, AdapterAfter
    <2>3. Enters(known, FALSE) BY <1>2, <2>2, Zenon DEF Enters
    <2> QED BY <2>3, Zenon
<1> QED BY <1>3, <1>4, Zenon

\* A heartbeat is sent: the adapter is told the mode if it has to be and asked
\* for its facts, and the request says what the Agent then knows.
LEMMA SendIs ==
    ASSUME IsAgent(agent), IsAdapter(adapter), SendHeartbeat
    PROVE  \E applies, tells \in BOOLEAN :
             /\ AdapterFails(applies /\ tells)
             /\ IsAgent(agent') /\ IsAdapter(adapter')
             /\ agent'.mode = agent.mode /\ agent'.gen = agent.gen
             /\ adapter'.marker = adapter.marker /\ adapter'.written = adapter.written
             /\ adapter'.late = adapter.late
             /\ IF ~agent.applied /\ applies
                THEN /\ agent'.applied = TRUE /\ adapter'.mode = agent.mode
                     /\ adapter'.sessions = IF agent.mode = "managed" THEN 0 ELSE adapter.sessions
                     /\ agent'.sessions = adapter'.sessions
                     /\ agent'.pending = IF adapter.marker = NoMarker THEN 0 ELSE 1
                ELSE adapter' = adapter /\ agent'.applied = agent.applied
             /\ IF tells THEN /\ agent'.sessions = adapter'.sessions
                              /\ agent'.pending = IF adapter.marker = NoMarker THEN 0 ELSE 1
                              /\ agent'.marker = adapter.marker
                ELSE /\ agent'.marker = agent.marker
                     /\ agent.applied \/ ~applies => SameFacts(agent', agent)
             /\ hb'.at = "sent" /\ hb'.mode = agent'.mode /\ hb'.gen = agent'.gen
             /\ hb'.sessions = agent'.sessions /\ hb'.pending = agent'.pending
             /\ hb'.marker = agent'.marker
<1>1. PICK applies, tells \in BOOLEAN :
         /\ AdapterFails(applies /\ tells)
         /\ adapter' = AdapterAfter(agent, applies)
         /\ agent' = IF tells THEN RecordAdapterSessionFacts(SyncTavernControlMode(agent, applies),
                                                             AdapterAfter(agent, applies))
                     ELSE SyncTavernControlMode(agent, applies)
         /\ hb' = ControlModeReport(agent')
    BY Zenon DEF SendHeartbeat
<1>2. PICK s : s = SyncTavernControlMode(agent, applies) BY Zenon
<1>3. PICK t : t = AdapterAfter(agent, applies) BY Zenon
<1>4. /\ IsAgent(s) /\ IsAdapter(t)
      /\ s.mode = agent.mode /\ s.gen = agent.gen /\ s.marker = agent.marker
      /\ t.marker = adapter.marker /\ t.written = adapter.written /\ t.late = adapter.late
      /\ ~agent.applied /\ applies => Synced(agent, s, t)
      /\ agent.applied \/ ~applies => s = agent /\ t = adapter
    BY <1>2, <1>3, SyncIs
<1>5. PICK a : a = agent' BY Zenon
<1>6. /\ hb'.at = "sent" /\ hb'.mode = a.mode /\ hb'.gen = a.gen
      /\ hb'.sessions = a.sessions /\ hb'.pending = a.pending /\ hb'.marker = a.marker
    BY <1>1, <1>5 DEF ControlModeReport
<1>7. CASE tells
    <2>1. PICK pending : pending = IF adapter.marker = NoMarker THEN 0 ELSE 1 BY Zenon
    <2>2. a = [s EXCEPT !.sessions = t.sessions, !.pending = pending, !.marker = t.marker]
        BY <1>1, <1>2, <1>3, <1>4, <1>5, <1>7, <2>1, Zenon DEF RecordAdapterSessionFacts
    <2>3. /\ IsAgent(a) /\ a.mode = s.mode /\ a.gen = s.gen /\ a.applied = s.applied
          /\ a.sessions = t.sessions /\ a.pending = pending /\ a.marker = t.marker
        BY <1>4, <2>2 DEF IsAgent
    <2>4. adapter' = t BY <1>1, <1>3, Zenon
    <2>5. CASE ~agent.applied /\ applies
        BY <1>1, <1>4, <1>5, <1>6, <1>7, <2>1, <2>3, <2>4, <2>5, ZenonT(60) DEF Synced
    <2>6. CASE agent.applied \/ ~applies
        BY <1>1, <1>4, <1>5, <1>6, <1>7, <2>1, <2>3, <2>4, <2>6, Zenon
    <2> QED BY <2>5, <2>6, Zenon
<1>8. CASE ~tells
    <2>1. a = s /\ adapter' = t BY <1>1, <1>2, <1>3, <1>5, <1>8, Zenon
    <2>2. CASE ~agent.applied /\ applies
        BY <1>1, <1>4, <1>5, <1>6, <1>8, <2>1, <2>2, Zenon DEF Synced
    <2>3. CASE agent.applied \/ ~applies
        BY <1>1, <1>4, <1>5, <1>6, <1>8, <2>1, <2>3, Zenon DEF SameFacts
    <2> QED BY <2>2, <2>3, Zenon
<1> QED BY <1>7, <1>8, Zenon

---------------------------------------------------------------------------
(* Generations.                                                            *)

Shape == IsAgent(agent) /\ IsAdapter(adapter)

\* A report is what the Agent still says of itself when it is handled.
GenInv ==
    /\ Shape
    /\ agent.gen \in Nat /\ node.gen \in Nat /\ node.desiredGen \in Nat
    /\ hb.at \in {"sent", "answered"} => hb.gen \in Nat
    /\ hb.at = "sent" => hb.gen = agent.gen /\ hb.mode = agent.mode
    /\ GenerationNamesMode

\* What sessions, the worker and the other nodes do.
Elsewhere ==
    \/ IndependentLogin \/ IndependentWrite \/ EndSession
    \/ \E m \in Markers : \/ Work(m) \/ FailSnapshotWorkflow(m)
                          \/ RetryIndependentReconciliationCompletion(m)
    \/ CaptureConflictEvidence \/ CompleteConflictResolution
    \/ ConfirmReplicaTakeover \/ PromoteControllerEpoch

\* The adapter after a step that is none of the heartbeat's: a session begins,
\* writes or ends, or a completion clears the marker.
LEMMA AdapterElsewhere ==
    ASSUME IsAdapter(adapter), Elsewhere
    PROVE  /\ UNCHANGED agent /\ UNCHANGED hb /\ UNCHANGED node /\ UNCHANGED outages
           /\ IsAdapter(adapter') /\ adapter'.mode = adapter.mode
           /\ \/ UNCHANGED adapter
              \/ /\ adapter.mode = "independent" /\ adapter'.sessions = adapter.sessions + 1
                 /\ adapter'.marker = adapter.marker /\ adapter'.written = adapter.written
                 /\ adapter'.late = adapter.late
              \/ /\ adapter.sessions > 0 /\ adapter'.sessions = adapter.sessions
                 /\ adapter'.written = adapter.written + 1
                 /\ adapter'.marker = adapter.written + 1
                 /\ adapter'.late = adapter.late \cup {w \in {adapter.written + 1} : evidence > 0}
              \/ /\ adapter.sessions > 0 /\ adapter'.sessions = adapter.sessions - 1
                 /\ adapter'.marker = adapter.marker /\ adapter'.written = adapter.written
                 /\ adapter'.late = adapter.late
              \/ /\ \E m \in Markers : rec[m].command /\ CompletionAccepted(m)
                 /\ adapter'.sessions = adapter.sessions
                 /\ adapter'.marker = NoMarker /\ adapter'.written = adapter.written
                 /\ adapter'.late = adapter.late
<1>1. UNCHANGED agent /\ UNCHANGED hb /\ UNCHANGED node /\ UNCHANGED outages
    <2>1. CASE IndependentLogin \/ IndependentWrite \/ EndSession
        BY <2>1, Zenon DEF IndependentLogin, IndependentWrite, EndSession, controller, bounds
    <2>2. CASE \E m \in Markers : Work(m)
        BY <2>2, Zenon DEF Work, CreateIndependentReconciliationSnapshot, CaptureSnapshot,
           CompleteSnapshotWorkflow, RestartIndependentReconciliationSnapshot,
           BeginIndependentReconciliationCompletion, CompleteIndependentReconciliation, bounds
    <2>3. CASE \E m \in Markers : \/ FailSnapshotWorkflow(m)
                                  \/ RetryIndependentReconciliationCompletion(m)
        BY <2>3, Zenon DEF FailSnapshotWorkflow, RetryIndependentReconciliationCompletion
    <2>4. CASE \/ CaptureConflictEvidence \/ CompleteConflictResolution
               \/ ConfirmReplicaTakeover \/ PromoteControllerEpoch
        BY <2>4, Zenon DEF CaptureConflictEvidence, CompleteConflictResolution,
           ConfirmReplicaTakeover, PromoteControllerEpoch, bounds
    <2> QED BY <2>1, <2>2, <2>3, <2>4, Zenon DEF Elsewhere
<1>2. CASE IndependentLogin
    <2>1. PICK t : t = [adapter EXCEPT !.sessions = @ + 1, !.logins = @ + 1] BY Zenon
    <2>2. IsAdapter(t) /\ t.mode = adapter.mode /\ t.marker = adapter.marker
          /\ t.written = adapter.written /\ t.late = adapter.late /\ t.sessions = adapter.sessions + 1
        BY <2>1 DEF IsAdapter
    <2> QED BY <1>1, <1>2, <2>1, <2>2, Zenon DEF IndependentLogin
<1>3. CASE IndependentWrite
    <2>0. PICK late : late = adapter.late \cup {w \in {adapter.written + 1} : evidence > 0} BY Zenon
    <2>1. PICK t : t = [adapter EXCEPT !.written = @ + 1, !.marker = adapter.written + 1,
                                       !.late = late]
        BY Zenon
    <2>2. IsAdapter(t) /\ t.mode = adapter.mode /\ t.marker = adapter.written + 1
          /\ t.written = adapter.written + 1 /\ t.late = late /\ t.sessions = adapter.sessions
        BY <2>1 DEF IsAdapter
    <2>3. adapter' = t BY <1>3, <2>0, <2>1 DEF IndependentWrite
    <2>4. adapter.sessions > 0 BY <1>3, Zenon DEF IndependentWrite
    <2> QED BY <1>1, <2>0, <2>2, <2>3, <2>4, Zenon
<1>4. CASE EndSession
    <2>1. PICK t : t = [adapter EXCEPT !.sessions = @ - 1] BY Zenon
    <2>2. IsAdapter(t) /\ t.mode = adapter.mode /\ t.marker = adapter.marker
          /\ t.written = adapter.written /\ t.late = adapter.late /\ t.sessions = adapter.sessions - 1
        BY <2>1 DEF IsAdapter
    <2> QED BY <1>1, <1>4, <2>1, <2>2, Zenon DEF EndSession
<1>5. ASSUME NEW m \in Markers, rec[m].command, CompletionAccepted(m),
             adapter' = [adapter EXCEPT !.marker = NoMarker]
      PROVE  /\ IsAdapter(adapter') /\ adapter'.mode = adapter.mode
             /\ adapter'.sessions = adapter.sessions
             /\ adapter'.marker = NoMarker /\ adapter'.written = adapter.written
             /\ adapter'.late = adapter.late
    BY <1>5 DEF IsAdapter
<1>6. CASE \E m \in Markers : \/ CompleteIndependentReconciliation(m)
                              \/ RetryIndependentReconciliationCompletion(m)
    <2>1. PICK m \in Markers : \/ CompleteIndependentReconciliation(m)
                               \/ RetryIndependentReconciliationCompletion(m)
        BY <1>6, Zenon
    <2>2. \/ UNCHANGED adapter
          \/ /\ rec[m].command /\ CompletionAccepted(m)
             /\ adapter' = [adapter EXCEPT !.marker = NoMarker]
        BY <2>1, Zenon DEF CompleteIndependentReconciliation,
                           RetryIndependentReconciliationCompletion
    <2>3. CASE UNCHANGED adapter BY <1>1, <2>3, Zenon
    <2>4. CASE ~UNCHANGED adapter BY <1>1, <1>5, <2>2, <2>4, Zenon
    <2> QED BY <2>3, <2>4, Zenon
<1>7. CASE UNCHANGED adapter BY <1>1, <1>7, Zenon
<1>8. \/ IndependentLogin \/ IndependentWrite \/ EndSession \/ UNCHANGED adapter
      \/ \E m \in Markers : \/ CompleteIndependentReconciliation(m)
                            \/ RetryIndependentReconciliationCompletion(m)
    <2>1. CASE \E m \in Markers : Work(m)
        BY <2>1, Zenon DEF Work, CreateIndependentReconciliationSnapshot, CaptureSnapshot,
           CompleteSnapshotWorkflow, RestartIndependentReconciliationSnapshot,
           BeginIndependentReconciliationCompletion
    <2>2. CASE \E m \in Markers : FailSnapshotWorkflow(m)
        BY <2>2, Zenon DEF FailSnapshotWorkflow
    <2>3. CASE \/ CaptureConflictEvidence \/ CompleteConflictResolution
               \/ ConfirmReplicaTakeover \/ PromoteControllerEpoch
        BY <2>3, Zenon DEF CaptureConflictEvidence, CompleteConflictResolution,
           ConfirmReplicaTakeover, PromoteControllerEpoch
    <2> QED BY <2>1, <2>2, <2>3, Zenon DEF Elsewhere
<1> QED BY <1>2, <1>3, <1>4, <1>6, <1>7, <1>8, Zenon

\* What the loop leaves alone.
LEMMA LoopFrame ==
    ASSUME SendHeartbeat \/ HeartbeatSucceeds \/ HeartbeatFails
    PROVE  /\ UNCHANGED node /\ UNCHANGED rec /\ UNCHANGED atHome /\ UNCHANGED epoch
           /\ UNCHANGED archived /\ UNCHANGED evidence
           /\ ~SendHeartbeat => hb' = Idle
BY Zenon DEF SendHeartbeat, HeartbeatSucceeds, HeartbeatFails, controller

\* reconcileNodeControlMode, whatever it makes of the report, changes no
\* state of the Agent and answers or refuses.
LEMMA ReconcileFrame ==
    ASSUME ReconcileNodeControlMode \/ ReconcileRecovery \/ ReconcileRefused
    PROVE  /\ UNCHANGED agent /\ UNCHANGED adapter /\ UNCHANGED outages /\ hb.at = "sent"
           /\ UNCHANGED atHome /\ UNCHANGED archived /\ UNCHANGED evidence
           /\ hb'.at \in {"answered", "rejected"}
<1>1. /\ UNCHANGED agent /\ UNCHANGED adapter /\ UNCHANGED outages /\ hb.at = "sent"
      /\ UNCHANGED atHome /\ UNCHANGED archived /\ UNCHANGED evidence
    BY Zenon DEF ReconcileNodeControlMode, ReconcileRecovery, ReconcileRefused, controller, bounds
<1>2. \/ hb' = [at |-> "answered", mode |-> Desired, gen |-> DesiredGeneration, known |-> epoch]
      \/ hb' = [at |-> "answered", mode |-> hb.mode, gen |-> hb.gen, known |-> epoch]
      \/ hb' = [at |-> "rejected"]
    BY Zenon DEF ReconcileNodeControlMode, ReconcileRecovery, ReconcileRefused, Rejected
<1>3. hb'.at \in {"answered", "rejected"} BY <1>2
<1> QED BY <1>1, <1>3, Zenon

\* The heartbeat has ended: the new state of the Agent.
LEMMA EntersIs ==
    ASSUME Shape, NEW f, NEW applies, Enters(f, applies)
    PROVE  /\ Shape'
           /\ agent'.mode = f.mode /\ agent'.gen = f.gen /\ agent'.marker = f.marker
           /\ adapter'.marker = adapter.marker /\ adapter'.written = adapter.written
           /\ adapter'.late = adapter.late
           /\ ~f.applied /\ applies => Synced(f, agent', adapter')
           /\ f.applied \/ ~applies => agent' = f /\ adapter' = adapter
<1>1. IsAgent(f) /\ IsAdapter(adapter) /\ agent' = SyncTavernControlMode(f, applies)
      /\ adapter' = AdapterAfter(f, applies)
    BY Zenon DEF Enters, Shape
<1>2. PICK a : a = agent' BY Zenon
<1>3. PICK t : t = adapter' BY Zenon
<1>4. /\ IsAgent(a) /\ IsAdapter(t)
      /\ a.mode = f.mode /\ a.gen = f.gen /\ a.marker = f.marker
      /\ t.marker = adapter.marker /\ t.written = adapter.written /\ t.late = adapter.late
      /\ ~f.applied /\ applies => Synced(f, a, t)
      /\ f.applied \/ ~applies => a = f /\ t = adapter
    BY <1>1, <1>2, <1>3, SyncIs
<1> QED BY <1>2, <1>3, <1>4, Zenon DEF Shape

\* A heartbeat that has ended has ended in a mode under a newer generation, or
\* in the mode it began in.
LEMMA LoopEnters ==
    ASSUME GenInv, HeartbeatSucceeds \/ HeartbeatFails
    PROVE  hb.at # "idle" /\ \E f, applies : Enters(f, applies)
<1>1. IsAgent(agent) /\ agent.gen \in Nat BY Zenon DEF GenInv, Shape
<1>2. CASE HeartbeatFails
    <2>1. hb.at # "idle" BY <1>2, Zenon DEF HeartbeatFails
    <2> QED BY <1>1, <1>2, <2>1, FailsEnters, Zenon
<1>3. CASE HeartbeatSucceeds
    <2>1. hb.at = "answered" BY <1>3, Zenon DEF HeartbeatSucceeds
    <2>2. hb.gen \in Nat BY <2>1, Zenon DEF GenInv
    <2>3. hb.at # "idle" BY <2>1
    <2> QED BY <1>1, <1>3, <2>2, <2>3, SucceedsEnters, Zenon
<1> QED BY <1>2, <1>3, Zenon

\* Both sides allot new generations above those they have seen.
LEMMA GenStep ==
    ASSUME GenInv, Next
    PROVE  GenInv'
<1> USE DEF GenInv
<1>1. CASE Elsewhere
    <2>1. /\ UNCHANGED agent /\ UNCHANGED hb /\ UNCHANGED node /\ IsAdapter(adapter')
        BY <1>1, AdapterElsewhere, Zenon DEF Shape
    <2> QED BY <2>1, Zenon DEF Shape, GenerationNamesMode
<1>2. CASE SendHeartbeat
    <2>1. /\ IsAgent(agent') /\ IsAdapter(adapter')
          /\ agent'.mode = agent.mode /\ agent'.gen = agent.gen
          /\ hb'.at = "sent" /\ hb'.mode = agent'.mode /\ hb'.gen = agent'.gen
        BY <1>2, SendIs, Zenon DEF Shape
    <2>2. node' = node BY <1>2, LoopFrame, Zenon
    <2> QED BY <2>1, <2>2, Zenon DEF Shape, GenerationNamesMode
<1>3. CASE HeartbeatSucceeds \/ HeartbeatFails
    <2>1. PICK f, applies : Enters(f, applies) BY <1>3, LoopEnters, Zenon
    <2>2. Shape' /\ agent'.mode = f.mode /\ agent'.gen = f.gen BY <2>1, EntersIs, Zenon
    <2>3. /\ f.mode = agent.mode => f.gen = agent.gen
          /\ f.mode # agent.mode => f.gen > agent.gen /\ f.gen \in Nat
        BY <2>1, Zenon DEF Enters
    <2>4. node' = node BY <1>3, LoopFrame, Zenon
    <2>5. hb' = Idle
        BY <1>3, Zenon DEF HeartbeatSucceeds, HeartbeatFails
    <2>6. hb'.at = "idle" BY <2>5 DEF Idle
    <2>7. /\ agent'.gen \in Nat
          /\ node.gen = agent'.gen => node.mode = agent'.mode
          /\ node.gen <= agent'.gen
        BY <2>2, <2>3 DEF GenerationNamesMode
    <2> QED BY <2>2, <2>4, <2>6, <2>7 DEF GenerationNamesMode
<1>4. CASE ReconcileNodeControlMode \/ ReconcileRecovery \/ ReconcileRefused
    <2>1. UNCHANGED agent /\ UNCHANGED adapter /\ hb.at = "sent"
          /\ hb'.at \in {"answered", "rejected"}
        BY <1>4, ReconcileFrame, Zenon
    <2>2. hb'.at # "sent" BY <2>1
    <2>3. hb.gen \in Nat /\ hb.gen = agent.gen /\ hb.mode = agent.mode BY <2>1
    <2>4. CASE ReconcileNodeControlMode
        <3>1. DesiredGeneration \in Nat BY <2>3 DEF DesiredGeneration
        <3>2. PICK g : g = DesiredGeneration BY Zenon
        <3>3. node' = [mode |-> hb.mode, gen |-> hb.gen, desired |-> Desired,
                       desiredGen |-> g, sessions |-> hb.sessions]
              /\ hb' = [at |-> "answered", mode |-> Desired, gen |-> g, known |-> epoch]
            BY <2>4, <3>2, Zenon DEF ReconcileNodeControlMode
        <3>4. node'.gen = hb.gen /\ node'.mode = hb.mode /\ node'.desiredGen = g /\ hb'.gen = g
            BY <3>3
        <3>5. node'.gen <= agent'.gen BY <2>1, <2>3, <3>4
        <3> QED BY <2>1, <2>2, <2>3, <3>1, <3>2, <3>4, <3>5, Zenon DEF GenerationNamesMode, Shape
    <2>5. CASE ReconcileRecovery
        <3>1. hb' = [at |-> "answered", mode |-> hb.mode, gen |-> hb.gen, known |-> epoch]
              /\ node' = node
            BY <2>5, Zenon DEF ReconcileRecovery, controller
        <3>2. hb'.gen = hb.gen BY <3>1
        <3> QED BY <2>1, <2>2, <2>3, <3>1, <3>2, Zenon DEF GenerationNamesMode, Shape
    <2>6. CASE ReconcileRefused
        <3>1. hb' = Rejected /\ node' = node
            BY <2>6, Zenon DEF ReconcileRefused, controller
        <3>2. hb'.at \notin {"sent", "answered"} BY <3>1 DEF Rejected
        <3> QED BY <2>1, <2>2, <3>1, <3>2, Zenon DEF GenerationNamesMode, Shape
    <2> QED BY <1>4, <2>4, <2>5, <2>6, Zenon
<1> QED BY <1>1, <1>2, <1>3, <1>4, Zenon DEF Next, Elsewhere

\* A stuttering step.
LEMMA GenStutter == GenInv /\ UNCHANGED vars => GenInv'
BY Zenon DEF GenInv, Shape, GenerationNamesMode, vars, controller

\* Initially the node is managed under its first generation.
LEMMA GenInit == Init => GenInv
<1> SUFFICES ASSUME Init PROVE GenInv OBVIOUS
<1>1. IsAgent(agent) /\ agent.gen = 1 /\ agent.mode = "managed" BY DEF Init, IsAgent
<1>2. IsAdapter(adapter) BY DEF Init, IsAdapter
<1>3. node.gen = 1 /\ node.desiredGen = 1 /\ node.mode = "managed" BY DEF Init
<1>4. hb.at = "idle" BY DEF Init, Idle
<1>5. 1 \in Nat /\ 1 <= 1 OBVIOUS
<1>6. hb.at \notin {"sent", "answered"} /\ hb.at # "sent" BY <1>4
<1> QED BY <1>1, <1>2, <1>3, <1>5, <1>6, Zenon DEF GenInv, Shape, GenerationNamesMode

\* Every reachable state satisfies GenInv.
THEOREM GenInvariant == Spec => []GenInv
<1>1. GenInv /\ [Next]_vars => GenInv' BY GenStep, GenStutter
<1> QED BY <1>1, GenInit, PTL DEF Spec

\* A mode generation names one mode, on the Agent and in the node's row,
\* although both sides allot numbers and requests and answers are lost
\* (recordControllerFailure, recordControllerSuccess, reconcileNodeControlMode).
THEOREM GenerationTheorem == Spec => []GenerationNamesMode
<1>1. GenInv => GenerationNamesMode BY Zenon DEF GenInv
<1> QED BY <1>1, GenInvariant, PTL

---------------------------------------------------------------------------
(* The Controller's rows.                                                  *)

IsRow(r) ==
    /\ DOMAIN r = {"state", "gen", "attempt", "workflow", "content", "resolved", "command"}
    /\ r.content \in Nat
RecShape ==
    /\ DOMAIN rec = Markers /\ \A m \in Markers : IsRow(rec[m])
    /\ archived \in Nat /\ evidence \in Nat /\ adapter.written \in Nat

\* What the worker, a conflict's resolution and a promotion may do to a row: a
\* finished one stays finished, a copy is of what the adapter has, and a
\* completion begins when there is a verified copy or a resolution.
Follows(r, row) ==
    /\ r.state \in Finished => row.state \in Finished
    /\ r.state = "none" /\ r.workflow = "none" => row.state = "none" /\ row.workflow = "none"
    /\ row.state = "none" => r.state = "none"
    /\ row.resolved => \/ r.resolved
                       \/ r.state # "none" /\ evidence > 0 /\ archived' >= evidence
    /\ row.workflow \in {"captured", "succeeded"} =>
         \/ r.workflow \in {"captured", "succeeded"} /\ row.content = r.content
         \/ r.workflow = "running" /\ row.content = adapter.written
    /\ row.workflow = "succeeded" =>
         r.workflow = "succeeded" \/ (r.workflow = "captured" /\ archived' >= r.content)
    /\ row.command => r.command \/ r.workflow = "succeeded" \/ r.resolved

\* An unchanged row.
LEMMA FollowsItself == ASSUME NEW r PROVE Follows(r, r)
BY DEF Follows

\* One row is replaced.
LEMMA OneRow ==
    ASSUME RecShape, NEW m \in Markers, NEW row, rec' = [rec EXCEPT ![m] = row],
           IsRow(row), Follows(rec[m], row)
    PROVE  DOMAIN rec' = Markers /\ \A k \in Markers : IsRow(rec'[k]) /\ Follows(rec[k], rec'[k])
<1>1. DOMAIN rec' = Markers BY Zenon DEF RecShape
<1>2. ASSUME NEW k \in Markers PROVE IsRow(rec'[k]) /\ Follows(rec[k], rec'[k])
    <2>1. CASE k = m
        <3>1. rec'[k] = row BY <2>1, Zenon DEF RecShape
        <3> QED BY <2>1, <3>1, Zenon
    <2>2. CASE k # m
        <3>1. rec'[k] = rec[k] BY <2>2, Zenon DEF RecShape
        <3> QED BY <3>1, FollowsItself, Zenon DEF RecShape
    <2> QED BY <2>1, <2>2, Zenon
<1> QED BY <1>1, <1>2, Zenon

\* A step of the worker on a marker.
LEMMA WorkFollows ==
    ASSUME RecShape, NEW m \in Markers,
           \/ Work(m) \/ FailSnapshotWorkflow(m) \/ RetryIndependentReconciliationCompletion(m)
    PROVE  DOMAIN rec' = Markers /\ \A k \in Markers : IsRow(rec'[k]) /\ Follows(rec[k], rec'[k])
<1>1. IsRow(rec[m]) /\ archived \in Nat /\ adapter.written \in Nat BY Zenon DEF RecShape
<1>2. CASE CreateIndependentReconciliationSnapshot(m)
    <2>1. PICK row : row = [rec[m] EXCEPT !.state = "snapshotting", !.workflow = "running"] BY Zenon
    <2>2. rec[m].state \in {"pending", "retry_wait"}
        BY <1>2, Zenon DEF CreateIndependentReconciliationSnapshot
    <2>3. rec' = [rec EXCEPT ![m] = row]
        BY <1>2, <2>1 DEF CreateIndependentReconciliationSnapshot
    <2>4. IsRow(row) /\ Follows(rec[m], row)
        BY <1>1, <2>1, <2>2 DEF IsRow, Follows, Finished
    <2> QED BY <2>3, <2>4, OneRow, Zenon
<1>3. CASE CaptureSnapshot(m)
    <2>1. PICK row : row = [rec[m] EXCEPT !.workflow = "captured", !.content = adapter.written]
        BY Zenon
    <2>2. rec[m].workflow = "running" BY <1>3, Zenon DEF CaptureSnapshot
    <2>3. rec' = [rec EXCEPT ![m] = row] BY <1>3, <2>1 DEF CaptureSnapshot
    <2>4. IsRow(row) /\ Follows(rec[m], row) BY <1>1, <2>1, <2>2 DEF IsRow, Follows
    <2> QED BY <2>3, <2>4, OneRow, Zenon
<1>4. CASE CompleteSnapshotWorkflow(m)
    <2>1. PICK row : row = [rec[m] EXCEPT !.workflow = "succeeded"] BY Zenon
    <2>2. rec[m].workflow = "captured" BY <1>4, Zenon DEF CompleteSnapshotWorkflow
    <2>3. rec' = [rec EXCEPT ![m] = row] BY <1>4, <2>1 DEF CompleteSnapshotWorkflow
    <2>4. archived' >= rec[m].content BY <1>1, <1>4 DEF CompleteSnapshotWorkflow, IsRow
    <2>5. IsRow(row) /\ Follows(rec[m], row) BY <1>1, <2>1, <2>2, <2>4 DEF IsRow, Follows
    <2> QED BY <2>3, <2>5, OneRow, Zenon
<1>5. CASE FailSnapshotWorkflow(m)
    <2>1. PICK row : row = [rec[m] EXCEPT !.workflow = "failed"] BY Zenon
    <2>2. rec[m].workflow \in {"running", "captured"} BY <1>5, Zenon DEF FailSnapshotWorkflow
    <2>3. rec' = [rec EXCEPT ![m] = row] BY <1>5, <2>1 DEF FailSnapshotWorkflow
    <2>4. IsRow(row) /\ Follows(rec[m], row) BY <1>1, <2>1, <2>2 DEF IsRow, Follows
    <2> QED BY <2>3, <2>4, OneRow, Zenon
<1>6. CASE RestartIndependentReconciliationSnapshot(m)
    <2>1. PICK state \in {"failed", "retry_wait"} :
            rec' = [rec EXCEPT ![m].state = state, ![m].workflow = "none", ![m].attempt = @ + 1]
        BY <1>6 DEF RestartIndependentReconciliationSnapshot
    <2>2. PICK row : row = [rec[m] EXCEPT !.state = state, !.workflow = "none", !.attempt = @ + 1]
        BY Zenon
    <2>3. rec[m].state = "snapshotting"
        BY <1>6, Zenon DEF RestartIndependentReconciliationSnapshot
    <2>4. rec' = [rec EXCEPT ![m] = row] BY <2>1, <2>2
    <2>5. IsRow(row) /\ Follows(rec[m], row) BY <1>1, <2>2, <2>3 DEF IsRow, Follows, Finished
    <2> QED BY <2>4, <2>5, OneRow, Zenon
<1>7. CASE BeginIndependentReconciliationCompletion(m)
    <2>1. PICK row : row = [rec[m] EXCEPT !.state = "completing", !.command = TRUE] BY Zenon
    <2>2. /\ rec[m].state \in {"conflict", "snapshotting", "completing", "completion_retry"}
          /\ rec[m].workflow = "succeeded" \/ rec[m].resolved
        BY <1>7 DEF BeginIndependentReconciliationCompletion
    <2>3. rec' = [rec EXCEPT ![m] = row]
        BY <1>7, <2>1 DEF BeginIndependentReconciliationCompletion
    <2>4. IsRow(row) /\ Follows(rec[m], row)
        BY <1>1, <2>1, <2>2 DEF IsRow, Follows, Finished
    <2> QED BY <2>3, <2>4, OneRow, Zenon
<1>8. CASE CompleteIndependentReconciliation(m)
    <2>1. PICK row : row = [rec[m] EXCEPT !.command = FALSE,
                                          !.state = IF @ = "completing" THEN "succeeded" ELSE @]
        BY Zenon
    <2>2. rec' = [rec EXCEPT ![m] = row] BY <1>8, <2>1 DEF CompleteIndependentReconciliation
    <2>3. IsRow(row) /\ Follows(rec[m], row) BY <1>1, <2>1 DEF IsRow, Follows, Finished
    <2> QED BY <2>2, <2>3, OneRow, Zenon
<1>9. CASE RetryIndependentReconciliationCompletion(m)
    <2>1. PICK state \in {"failed", "completion_retry"}, attempt \in {rec[m].attempt, rec[m].attempt + 1} :
            rec' = [rec EXCEPT ![m].command = FALSE,
                               ![m].state = IF @ # "completing" THEN @ ELSE state,
                               ![m].attempt = attempt]
        BY <1>9 DEF RetryIndependentReconciliationCompletion
    <2>2. PICK row : row = [rec[m] EXCEPT !.command = FALSE,
                                          !.state = IF @ # "completing" THEN @ ELSE state,
                                          !.attempt = attempt]
        BY Zenon
    <2>3. rec' = [rec EXCEPT ![m] = row] BY <2>1, <2>2
    <2>4. IsRow(row) /\ Follows(rec[m], row) BY <1>1, <2>2 DEF IsRow, Follows, Finished
    <2> QED BY <2>3, <2>4, OneRow, Zenon
<1> QED BY <1>2, <1>3, <1>4, <1>5, <1>6, <1>7, <1>8, <1>9, Zenon DEF Work

\* The rows after a step that is none of the heartbeat's.
LEMMA RowsElsewhere ==
    ASSUME Shape, RecShape, Elsewhere
    PROVE  /\ RecShape' /\ archived' >= archived
           /\ \A k \in Markers : Follows(rec[k], rec'[k])
<1> DEFINE Rows == /\ DOMAIN rec' = Markers
                   /\ \A k \in Markers : IsRow(rec'[k]) /\ Follows(rec[k], rec'[k])
<1>1. adapter'.written \in Nat
    <2>1. \/ adapter' = adapter \/ adapter'.written = adapter.written
          \/ adapter'.written = adapter.written + 1
        BY AdapterElsewhere, Zenon DEF Shape
    <2> QED BY <2>1 DEF RecShape
<1>2. Rows
    <2>1. CASE \E m \in Markers : \/ Work(m) \/ FailSnapshotWorkflow(m)
                                  \/ RetryIndependentReconciliationCompletion(m)
        BY <2>1, WorkFollows, Zenon
    <2>2. CASE CompleteConflictResolution
        <3>1. DOMAIN rec' = Markers BY <2>2, Zenon DEF CompleteConflictResolution
        <3>2. ASSUME NEW k \in Markers PROVE IsRow(rec'[k]) /\ Follows(rec[k], rec'[k])
            <4>1. PICK resolved : resolved = (rec[k].resolved \/ rec[k].state # "none") BY Zenon
            <4>2. rec'[k] = [rec[k] EXCEPT !.resolved = resolved]
                BY <2>2, <4>1 DEF CompleteConflictResolution
            <4>3. evidence > 0 /\ archived' >= evidence
                BY <2>2 DEF CompleteConflictResolution, RecShape
            <4>4. IsRow(rec[k]) BY Zenon DEF RecShape
            <4> QED BY <4>1, <4>2, <4>3, <4>4 DEF IsRow, Follows
        <3> QED BY <3>1, <3>2, Zenon
    <2>3. CASE PromoteControllerEpoch
        <3>1. DOMAIN rec' = Markers BY <2>3, Zenon DEF PromoteControllerEpoch
        <3>2. ASSUME NEW k \in Markers PROVE IsRow(rec'[k]) /\ Follows(rec[k], rec'[k])
            <4>1. rec'[k] = [rec[k] EXCEPT !.command = FALSE]
                BY <2>3, Zenon DEF PromoteControllerEpoch
            <4>2. IsRow(rec[k]) BY Zenon DEF RecShape
            <4> QED BY <4>1, <4>2 DEF IsRow, Follows
        <3> QED BY <3>1, <3>2, Zenon
    <2>4. CASE UNCHANGED rec BY <2>4, FollowsItself, Zenon DEF RecShape
    <2>5. CASE \/ IndependentLogin \/ IndependentWrite \/ EndSession
               \/ CaptureConflictEvidence \/ ConfirmReplicaTakeover
        BY <2>4, <2>5, Zenon DEF IndependentLogin, IndependentWrite, EndSession, controller,
           CaptureConflictEvidence, ConfirmReplicaTakeover
    <2> QED BY <2>1, <2>2, <2>3, <2>5, Zenon DEF Elsewhere
<1>3. /\ archived' \in Nat /\ evidence' \in Nat /\ archived' >= archived
    <2>1. CASE CompleteConflictResolution
        BY <2>1 DEF CompleteConflictResolution, RecShape
    <2>2. CASE CaptureConflictEvidence
        BY <2>2 DEF CaptureConflictEvidence, RecShape
    <2>3. ASSUME NEW m \in Markers, CompleteSnapshotWorkflow(m)
          PROVE  /\ archived' \in Nat /\ evidence' \in Nat /\ archived' >= archived
        <3>1. rec[m].content \in Nat BY Zenon DEF RecShape, IsRow
        <3> QED BY <2>3, <3>1 DEF CompleteSnapshotWorkflow, RecShape
    <2>4. CASE UNCHANGED archived /\ UNCHANGED evidence BY <2>4 DEF RecShape
    <2>5. ASSUME NEW m \in Markers,
                 Work(m) \/ FailSnapshotWorkflow(m) \/ RetryIndependentReconciliationCompletion(m),
                 ~CompleteSnapshotWorkflow(m)
          PROVE  UNCHANGED archived /\ UNCHANGED evidence
        BY <2>5, Zenon DEF Work, CreateIndependentReconciliationSnapshot, CaptureSnapshot,
           RestartIndependentReconciliationSnapshot, BeginIndependentReconciliationCompletion,
           CompleteIndependentReconciliation, FailSnapshotWorkflow,
           RetryIndependentReconciliationCompletion
    <2>6. CASE \/ IndependentLogin \/ IndependentWrite \/ EndSession
               \/ ConfirmReplicaTakeover \/ PromoteControllerEpoch
        BY <2>4, <2>6, Zenon DEF IndependentLogin, IndependentWrite, EndSession, controller,
           ConfirmReplicaTakeover, PromoteControllerEpoch
    <2> QED BY <2>1, <2>2, <2>3, <2>4, <2>5, <2>6, Zenon DEF Elsewhere
<1> QED BY <1>1, <1>2, <1>3, Zenon DEF RecShape

\* The rows after a report: without a pending write they stay, and otherwise
\* one may be opened for the reported marker and others are superseded.
LEMMA RowsReconciled ==
    ASSUME RecShape, ReconcileNodeControlMode
    PROVE  /\ DOMAIN rec' = Markers /\ \A m \in Markers : IsRow(rec'[m])
           /\ hb.marker = NoMarker => \A m \in Markers : rec'[m] = rec[m]
           /\ \A m \in Markers :
                \/ rec'[m] = rec[m]
                \/ /\ m = hb.marker /\ rec[m].state = "none"
                   /\ rec'[m].state = IF atHome THEN "pending" ELSE "conflict"
                   /\ rec'[m].workflow = "none" /\ ~rec'[m].resolved /\ ~rec'[m].command
                \/ /\ rec[m].state # "none" /\ rec'[m].state = "superseded"
                   /\ rec'[m].workflow \in {rec[m].workflow, "cancelled"}
                   /\ rec'[m].content = rec[m].content /\ rec'[m].resolved = rec[m].resolved
                   /\ rec'[m].command = rec[m].command
<1>1. rec' = RecordIndependentSyncFacts BY Zenon DEF ReconcileNodeControlMode
<1>2. DOMAIN rec' = Markers BY <1>1, Zenon DEF RecordIndependentSyncFacts, RecShape
<1>3. ASSUME NEW m \in Markers
      PROVE  /\ IsRow(rec'[m])
             /\ hb.marker = NoMarker => rec'[m] = rec[m]
             /\ \/ rec'[m] = rec[m]
                \/ /\ m = hb.marker /\ rec[m].state = "none"
                   /\ rec'[m].state = IF atHome THEN "pending" ELSE "conflict"
                   /\ rec'[m].workflow = "none" /\ ~rec'[m].resolved /\ ~rec'[m].command
                \/ /\ rec[m].state # "none" /\ rec'[m].state = "superseded"
                   /\ rec'[m].workflow \in {rec[m].workflow, "cancelled"}
                   /\ rec'[m].content = rec[m].content /\ rec'[m].resolved = rec[m].resolved
                   /\ rec'[m].command = rec[m].command
    <2>1. hb.marker # NoMarker =>
            rec'[m] =
              CASE m = hb.marker /\ rec[m].state = "none" ->
                     [NoRow EXCEPT !.state = IF atHome THEN "pending" ELSE "conflict", !.gen = epoch]
                [] m # hb.marker /\ rec[m].state \notin Finished \cup {"failed"} ->
                     Superseded(rec[m])
                [] OTHER -> rec[m]
        BY <1>1, Zenon DEF RecordIndependentSyncFacts
    <2>2. IsRow(rec[m]) BY Zenon DEF RecShape
    <2>3. CASE hb.marker = NoMarker
        <3>1. rec'[m] = rec[m] BY <1>1, <2>3, Zenon DEF RecordIndependentSyncFacts
        <3> QED BY <2>2, <3>1, Zenon
    <2>4. CASE hb.marker # NoMarker /\ m = hb.marker /\ rec[m].state = "none"
        <3>1. PICK state : state = IF atHome THEN "pending" ELSE "conflict" BY Zenon
        <3>2. rec'[m] = [NoRow EXCEPT !.state = state, !.gen = epoch] BY <2>1, <2>4, <3>1
        <3>3. /\ IsRow(rec'[m]) /\ rec'[m].state = state /\ rec'[m].workflow = "none"
              /\ rec'[m].resolved = FALSE /\ rec'[m].command = FALSE
            BY <3>2 DEF NoRow, IsRow
        <3> QED BY <2>4, <3>1, <3>3, Zenon
    <2>5. CASE hb.marker # NoMarker /\ m # hb.marker /\ rec[m].state \notin Finished \cup {"failed"}
        <3>1. PICK r : r = Superseded(rec[m]) BY Zenon
        <3>2. rec'[m] = r BY <2>1, <2>5, <3>1
        <3>3. /\ IsRow(r) /\ r.state = "superseded"
              /\ r.workflow \in {rec[m].workflow, "cancelled"}
              /\ r.content = rec[m].content /\ r.resolved = rec[m].resolved
              /\ r.command = rec[m].command
            BY <2>2, <3>1 DEF Superseded, IsRow
        <3>4. rec[m].state # "none" BY <2>5 DEF Finished
        <3> QED BY <2>5, <3>2, <3>3, <3>4, Zenon
    <2>6. CASE /\ hb.marker # NoMarker /\ ~(m = hb.marker /\ rec[m].state = "none")
               /\ ~(m # hb.marker /\ rec[m].state \notin Finished \cup {"failed"})
        <3>1. rec'[m] = rec[m]
            <4>1. CASE m = hb.marker BY <2>1, <2>6, <4>1
            <4>2. CASE m # hb.marker
                <5>1. ~(rec[m].state \notin Finished \cup {"failed"}) BY <2>6, <4>2, Zenon
                <5> QED BY <2>1, <2>6, <4>2, <5>1
            <4> QED BY <4>1, <4>2, Zenon
        <3> QED BY <2>2, <3>1, Zenon
    <2> QED BY <2>3, <2>4, <2>5, <2>6, Zenon
<1> QED BY <1>2, <1>3, Zenon

---------------------------------------------------------------------------
(* A node returns drained and reconciled.                                  *)

ModeTypes ==
    /\ agent.mode \in Modes
    /\ hb.at = "answered" => hb.mode \in Modes
    /\ agent.sessions \in Nat /\ agent.pending \in Nat /\ adapter.sessions \in Nat

\* An adapter that has been told the mode is in it.  Where that mode lets
\* nobody log in, an Agent that has counted no session may rely on its counts
\* however old they are: no session is left to begin another or to write.
CountInv ==
    agent.applied =>
        /\ adapter.mode = agent.mode
        /\ (agent.mode # "independent" /\ agent.sessions = 0) =>
             adapter.sessions = 0 /\ (agent.pending = 0 => adapter.marker = NoMarker)

\* A draining Agent is offered no mode but managed, and that only when no row is
\* open; and none is opened between the offer and the next report.
SettledInv ==
    /\ (hb.at = "answered" /\ agent.mode = "independent-draining" /\ hb.mode # agent.mode) =>
         hb.mode = "managed" /\ ~DurablePending
    /\ (node.mode = "independent-draining" /\ agent.mode # node.mode) => ~DurablePending

ModeInv == GenInv /\ RecShape /\ ModeTypes /\ CountInv /\ SettledInv

\* The steps of sessions, the worker and the other nodes.
LEMMA ModeElsewhere ==
    ASSUME ModeInv, Next, Elsewhere
    PROVE  ModeInv'
<1>1. GenInv' BY GenStep, Zenon DEF ModeInv
<1>2. /\ UNCHANGED agent /\ UNCHANGED hb /\ UNCHANGED node /\ adapter'.mode = adapter.mode
    BY AdapterElsewhere, Zenon DEF ModeInv, GenInv, Shape
<1>3. RecShape' /\ \A k \in Markers : Follows(rec[k], rec'[k])
    BY RowsElsewhere, Zenon DEF ModeInv, GenInv
<1>4. ~DurablePending => ~DurablePending'
    BY <1>3, Zenon DEF DurablePending, Follows
<1>5. \/ adapter' = adapter
      \/ adapter.mode = "independent" /\ adapter'.sessions = adapter.sessions + 1
      \/ adapter.sessions > 0 /\ adapter'.sessions \in {adapter.sessions, adapter.sessions - 1}
      \/ adapter'.sessions = adapter.sessions /\ adapter'.marker = NoMarker
    <2>1. IsAdapter(adapter) BY Zenon DEF ModeInv, GenInv, Shape
    <2> QED BY <2>1, AdapterElsewhere, Zenon
<1>6. adapter.sessions \in Nat BY Zenon DEF ModeInv, ModeTypes
<1>7. adapter'.sessions \in Nat BY <1>5, <1>6
<1>8. ModeTypes' BY <1>2, <1>7, Zenon DEF ModeInv, ModeTypes
<1>9. adapter.sessions = 0 /\ adapter.mode # "independent" =>
        /\ adapter'.sessions = 0
        /\ adapter.marker = NoMarker => adapter'.marker = NoMarker
    BY <1>5, <1>6
<1>10. CountInv' BY <1>2, <1>9, Zenon DEF ModeInv, CountInv
<1>11. SettledInv' BY <1>2, <1>4, Zenon DEF ModeInv, SettledInv
<1> QED BY <1>1, <1>3, <1>8, <1>10, <1>11, Zenon DEF ModeInv

\* A heartbeat is sent.
LEMMA ModeSend ==
    ASSUME ModeInv, Next, SendHeartbeat
    PROVE  ModeInv'
<1>1. GenInv' BY GenStep, Zenon DEF ModeInv
<1>2. UNCHANGED node /\ UNCHANGED rec /\ UNCHANGED archived /\ UNCHANGED evidence
    BY LoopFrame, Zenon
<1>3. PICK applies, tells \in BOOLEAN :
         /\ agent'.mode = agent.mode
         /\ adapter'.marker = adapter.marker /\ adapter'.written = adapter.written
         /\ IF ~agent.applied /\ applies
            THEN /\ agent'.applied = TRUE /\ adapter'.mode = agent.mode
                 /\ adapter'.sessions = IF agent.mode = "managed" THEN 0 ELSE adapter.sessions
                 /\ agent'.sessions = adapter'.sessions
                 /\ agent'.pending = IF adapter.marker = NoMarker THEN 0 ELSE 1
            ELSE adapter' = adapter /\ agent'.applied = agent.applied
         /\ IF tells THEN /\ agent'.sessions = adapter'.sessions
                          /\ agent'.pending = IF adapter.marker = NoMarker THEN 0 ELSE 1
            ELSE agent.applied \/ ~applies => SameFacts(agent', agent)
         /\ hb'.at = "sent"
    <2>1. IsAgent(agent) /\ IsAdapter(adapter) BY Zenon DEF ModeInv, GenInv, Shape
    <2> QED BY <2>1, SendIs, Zenon
<1>4. adapter'.sessions \in {0, adapter.sessions} BY <1>3, Zenon
<1>5. \/ agent'.sessions = adapter'.sessions
         /\ agent'.pending = IF adapter.marker = NoMarker THEN 0 ELSE 1
      \/ adapter' = adapter /\ SameFacts(agent', agent) /\ agent'.applied = agent.applied
    BY <1>3, Zenon
<1>6. ModeTypes'
    <2>1. adapter'.sessions \in Nat BY <1>4 DEF ModeInv, ModeTypes
    <2>2. agent'.sessions \in Nat /\ agent'.pending \in Nat
        BY <1>5, <2>1 DEF ModeInv, ModeTypes, SameFacts
    <2>3. hb'.at # "answered" BY <1>3
    <2> QED BY <1>3, <2>1, <2>2, <2>3, Zenon DEF ModeInv, ModeTypes
<1>7. RecShape' BY <1>2, <1>3, Zenon DEF ModeInv, RecShape
<1>8. (IF adapter.marker = NoMarker THEN 0 ELSE 1) = 0 => adapter.marker = NoMarker
    OBVIOUS
<1>9. agent'.applied => adapter'.mode = agent'.mode
    BY <1>3, Zenon DEF ModeInv, CountInv
<1>10. CountInv'
    BY <1>3, <1>5, <1>8, <1>9, Zenon DEF ModeInv, CountInv, SameFacts
<1>11. SettledInv'
    <2>1. hb'.at # "answered" BY <1>3
    <2> QED BY <1>2, <1>3, <2>1, Zenon DEF ModeInv, SettledInv, DurablePending
<1> QED BY <1>1, <1>6, <1>7, <1>10, <1>11, Zenon DEF ModeInv

\* The Controller handles a report: it offers managed to a draining node only
\* when that has reported itself drained and has no open row.
LEMMA ModeReconcile ==
    ASSUME ModeInv, Next, ReconcileNodeControlMode \/ ReconcileRecovery \/ ReconcileRefused
    PROVE  ModeInv'
<1>1. GenInv' BY GenStep, Zenon DEF ModeInv
<1>2. /\ UNCHANGED agent /\ UNCHANGED adapter /\ hb.at = "sent"
      /\ UNCHANGED archived /\ UNCHANGED evidence
    BY ReconcileFrame, Zenon
<1>3. hb.mode = agent.mode /\ agent.mode \in Modes
    BY <1>2, Zenon DEF ModeInv, GenInv, ModeTypes
<1>4. CountInv' BY <1>2, Zenon DEF ModeInv, CountInv
<1>5. CASE ReconcileNodeControlMode
    <2>1. PICK desired : desired = Desired BY Zenon
    <2>2. /\ \E g : hb' = [at |-> "answered", mode |-> desired, gen |-> g, known |-> epoch]
          /\ \E g, h : node' = [mode |-> hb.mode, gen |-> h, desired |-> desired,
                                desiredGen |-> g, sessions |-> hb.sessions]
        BY <1>5, <2>1, Zenon DEF ReconcileNodeControlMode
    <2>3. hb'.mode = desired /\ node'.mode = hb.mode BY <2>2
    <2>4. /\ desired \in Modes
          /\ hb.mode = "independent-draining" /\ desired # hb.mode =>
               desired = "managed" /\ hb.pending = 0 /\ ~DurablePending
        BY <1>3, <2>1 DEF Desired, Drained, Modes
    <2>5. RecShape' BY <1>2, <1>5, RowsReconciled, Zenon DEF ModeInv, RecShape
    <2>6. hb.pending = 0 /\ ~DurablePending => ~DurablePending'
        <3>1. SUFFICES ASSUME hb.pending = 0, ~DurablePending PROVE ~DurablePending'
            OBVIOUS
        <3>2. hb.marker = NoMarker
            BY <1>5, <3>1, Zenon DEF ReconcileNodeControlMode, ValidFact
        <3>3. \A m \in Markers : rec'[m] = rec[m]
            BY <1>5, <3>2, RowsReconciled, Zenon DEF ModeInv
        <3> QED BY <3>1, <3>3, Zenon DEF DurablePending
    <2>7. ModeTypes' BY <1>2, <2>3, <2>4, Zenon DEF ModeInv, ModeTypes
    <2>8. SettledInv' BY <1>2, <1>3, <2>3, <2>4, <2>6, Zenon DEF SettledInv
    <2> QED BY <1>1, <1>4, <2>5, <2>7, <2>8, Zenon DEF ModeInv
<1>6. CASE ReconcileRecovery \/ ReconcileRefused
    <2>1. UNCHANGED node /\ UNCHANGED rec
        BY <1>6, Zenon DEF ReconcileRecovery, ReconcileRefused, controller
    <2>2. hb'.at = "answered" => hb'.mode = hb.mode
        <3>1. CASE ReconcileRecovery
            <4>1. hb' = [at |-> "answered", mode |-> hb.mode, gen |-> hb.gen, known |-> epoch]
                BY <3>1, Zenon DEF ReconcileRecovery
            <4> QED BY <4>1
        <3>2. CASE ReconcileRefused
            <4>1. hb' = [at |-> "rejected"] BY <3>2, Zenon DEF ReconcileRefused, Rejected
            <4> QED BY <4>1
        <3> QED BY <1>6, <3>1, <3>2, Zenon
    <2>3. ModeTypes' BY <1>2, <1>3, <2>2, Zenon DEF ModeInv, ModeTypes
    <2>4. RecShape' BY <1>2, <2>1, Zenon DEF ModeInv, RecShape
    <2>5. DurablePending' <=> DurablePending BY <2>1, Zenon DEF DurablePending
    <2>6. SettledInv' BY <1>2, <1>3, <2>1, <2>2, <2>5, Zenon DEF ModeInv, SettledInv
    <2> QED BY <1>1, <1>4, <2>3, <2>4, <2>6, Zenon DEF ModeInv
<1> QED BY <1>5, <1>6, Zenon

\* A heartbeat ends.
LEMMA ModeEnter ==
    ASSUME ModeInv, Next, HeartbeatSucceeds \/ HeartbeatFails
    PROVE  ModeInv'
<1>1. GenInv' BY GenStep, Zenon DEF ModeInv
<1>2. UNCHANGED node /\ UNCHANGED rec /\ UNCHANGED archived /\ UNCHANGED evidence
    BY LoopFrame, Zenon
<1>3. hb' = Idle BY Zenon DEF HeartbeatSucceeds, HeartbeatFails
<1>4. hb'.at # "answered" BY <1>3 DEF Idle
<1>5. PICK f, applies : Enters(f, applies)
    BY LoopEnters, Zenon DEF ModeInv
<1>6. /\ agent'.mode = f.mode
      /\ adapter'.marker = adapter.marker /\ adapter'.written = adapter.written
      /\ ~f.applied /\ applies => Synced(f, agent', adapter')
      /\ f.applied \/ ~applies => agent' = f /\ adapter' = adapter
    <2>1. Shape BY Zenon DEF ModeInv, GenInv
    <2> QED BY <1>5, <2>1, EntersIs
<1>7. SameFacts(f, agent) BY <1>5, Zenon DEF Enters
<1>8. ModeTypes'
    <2>1. f.mode \in Modes BY <1>5, Zenon DEF Enters, ModeInv, ModeTypes
    <2>2. adapter'.sessions \in {0, adapter.sessions} BY <1>6, Zenon DEF Synced
    <2>3. adapter'.sessions \in Nat BY <2>2 DEF ModeInv, ModeTypes
    <2>4. agent'.sessions \in Nat /\ agent'.pending \in Nat
        <3>1. CASE ~f.applied /\ applies BY <1>6, <2>3, <3>1 DEF Synced
        <3>2. CASE f.applied \/ ~applies
            BY <1>6, <1>7, <3>2, Zenon DEF SameFacts, ModeInv, ModeTypes
        <3> QED BY <3>1, <3>2, Zenon
    <2> QED BY <1>4, <1>6, <2>1, <2>3, <2>4, Zenon DEF ModeInv, ModeTypes
<1>9. RecShape' BY <1>2, <1>6, Zenon DEF ModeInv, RecShape
<1>10. CountInv'
    <2>1. (IF adapter.marker = NoMarker THEN 0 ELSE 1) = 0 => adapter.marker = NoMarker
        OBVIOUS
    <2>2. CASE ~f.applied /\ applies
        BY <1>6, <2>1, <2>2, Zenon DEF Synced, CountInv
    <2>3. CASE f.applied \/ ~applies
        <3>1. agent' = f /\ adapter' = adapter BY <1>6, <2>3, Zenon
        <3>2. f.applied => agent.applied /\ f.mode = agent.mode BY <1>5, Zenon DEF Enters
        <3> QED BY <1>7, <3>1, <3>2, Zenon DEF ModeInv, CountInv, SameFacts
    <2> QED BY <2>2, <2>3, Zenon
<1>11. SettledInv'
    <2>1. DurablePending' <=> DurablePending BY <1>2, Zenon DEF DurablePending
    <2>2. agent.mode = "independent-draining" /\ f.mode # agent.mode => ~DurablePending
        BY <1>5, Zenon DEF Enters, ModeInv, SettledInv
    <2> QED BY <1>2, <1>4, <1>6, <2>1, <2>2, Zenon DEF ModeInv, SettledInv
<1> QED BY <1>1, <1>8, <1>9, <1>10, <1>11, Zenon DEF ModeInv

\* Every step keeps ModeInv.
LEMMA ModeStep ==
    ASSUME ModeInv, Next
    PROVE  ModeInv'
<1>1. \/ Elsewhere \/ SendHeartbeat \/ HeartbeatSucceeds \/ HeartbeatFails
      \/ ReconcileNodeControlMode \/ ReconcileRecovery \/ ReconcileRefused
    BY Zenon DEF Next, Elsewhere
<1> QED BY <1>1, ModeElsewhere, ModeSend, ModeEnter, ModeReconcile, Zenon

\* A stuttering step.
LEMMA ModeStutter == ModeInv /\ UNCHANGED vars => ModeInv'
<1>1. SUFFICES ASSUME ModeInv, UNCHANGED vars PROVE ModeInv' OBVIOUS
<1>2. GenInv' BY <1>1, GenStutter, Zenon DEF ModeInv
<1>3. /\ UNCHANGED agent /\ UNCHANGED adapter /\ UNCHANGED hb /\ UNCHANGED node /\ UNCHANGED rec
      /\ UNCHANGED archived /\ UNCHANGED evidence
    BY <1>1, Zenon DEF vars, controller
<1> QED BY <1>1, <1>2, <1>3, Zenon DEF ModeInv, RecShape, ModeTypes, CountInv, SettledInv,
       DurablePending

\* Initially nothing was written and nothing is open.
LEMMA ModeInit == Init => ModeInv
<1> SUFFICES ASSUME Init PROVE ModeInv OBVIOUS
<1>1. GenInv BY GenInit, Zenon
<1>2. agent.mode = "managed" /\ agent.sessions = 0 /\ agent.pending = 0 BY DEF Init
<1>3. adapter.mode = "managed" /\ adapter.sessions = 0 /\ adapter.marker = NoMarker
      /\ adapter.written = 0
    BY DEF Init
<1>4. hb.at = "idle" BY DEF Init, Idle
<1>5. DOMAIN rec = Markers /\ \A m \in Markers : rec[m] = NoRow BY Zenon DEF Init
<1>6. IsRow(NoRow) /\ NoRow.state = "none" BY DEF NoRow, IsRow
<1>7. RecShape
    <2>1. archived \in Nat /\ evidence \in Nat /\ adapter.written \in Nat BY <1>3 DEF Init
    <2> QED BY <1>5, <1>6, <2>1, Zenon DEF RecShape
<1>8. ~DurablePending
    <2>1. "none" \in Finished BY DEF Finished
    <2> QED BY <1>5, <1>6, <2>1, Zenon DEF DurablePending
<1>9. ModeTypes BY <1>2, <1>3, <1>4 DEF ModeTypes, Modes
<1>10. CountInv BY <1>2, <1>3, Zenon DEF CountInv
<1>11. SettledInv BY <1>4, <1>8 DEF SettledInv
<1> QED BY <1>1, <1>7, <1>9, <1>10, <1>11, Zenon DEF ModeInv

\* Every reachable state satisfies ModeInv.
THEOREM ModeInvariant == Spec => []ModeInv
<1>1. ModeInv /\ [Next]_vars => ModeInv' BY ModeStep, ModeStutter
<1> QED BY <1>1, ModeInit, PTL DEF Spec

\* A draining Agent whose adapter has taken up draining becomes managed with no
\* independent session running and no independent write waiting, however often
\* the adapter was silent, and the Controller takes a node for no longer
\* draining only when no reconciliation it knew of is open
\* (recordControllerSuccess, syncTavernControlMode, reconcileNodeControlMode).
THEOREM ReturnsDrainedTheorem == Spec => ReturnsDrained
<1> DEFINE Back == (agent.mode = "independent-draining" /\ agent'.mode = "managed" /\ agent.applied)
                     => (adapter.sessions = 0 /\ adapter.marker = NoMarker)
           Booked == (node.mode = "independent-draining" /\ node'.mode # node.mode)
                       => ~DurablePending
<1>1. ModeInv /\ Next => Back
    <2> SUFFICES ASSUME ModeInv, Next, agent.mode = "independent-draining",
                        agent'.mode = "managed", agent.applied
                 PROVE  adapter.sessions = 0 /\ adapter.marker = NoMarker
        BY Zenon
    <2>1. agent'.mode # agent.mode OBVIOUS
    <2>2. CASE Elsewhere
        BY <2>1, <2>2, AdapterElsewhere, Zenon DEF ModeInv, GenInv, Shape
    <2>3. CASE SendHeartbeat
        BY <2>1, <2>3, SendIs, Zenon DEF ModeInv, GenInv, Shape
    <2>4. CASE ReconcileNodeControlMode \/ ReconcileRecovery \/ ReconcileRefused
        BY <2>1, <2>4, ReconcileFrame, Zenon
    <2>5. CASE HeartbeatSucceeds \/ HeartbeatFails
        <3>1. PICK f, applies : Enters(f, applies) BY <2>5, LoopEnters, Zenon DEF ModeInv
        <3>2. f.mode = "managed" BY <3>1, EntersIs, Zenon DEF ModeInv, GenInv
        <3>3. ~(agent.sessions > 0) /\ ~(agent.pending > 0)
            BY <2>1, <3>1, <3>2, Zenon DEF Enters
        <3>4. agent.sessions = 0 /\ agent.pending = 0 BY <3>3 DEF ModeInv, ModeTypes
        <3>5. agent.mode # "independent" OBVIOUS
        <3> QED BY <3>4, <3>5, Zenon DEF ModeInv, CountInv
    <2> QED BY <2>2, <2>3, <2>4, <2>5, Zenon DEF Next, Elsewhere
<1>2. ModeInv /\ Next => Booked
    <2> SUFFICES ASSUME ModeInv, Next, node.mode = "independent-draining", node'.mode # node.mode
                 PROVE  ~DurablePending
        BY Zenon
    <2>1. CASE Elsewhere
        BY <2>1, AdapterElsewhere, Zenon DEF ModeInv, GenInv, Shape
    <2>2. CASE SendHeartbeat \/ HeartbeatSucceeds \/ HeartbeatFails
        BY <2>2, LoopFrame, Zenon
    <2>3. CASE ReconcileRecovery \/ ReconcileRefused
        BY <2>3, Zenon DEF ReconcileRecovery, ReconcileRefused, controller
    <2>4. CASE ReconcileNodeControlMode
        <3>1. \E g, h, d : node' = [mode |-> hb.mode, gen |-> h, desired |-> d,
                                    desiredGen |-> g, sessions |-> hb.sessions]
            BY <2>4, Zenon DEF ReconcileNodeControlMode
        <3>2. node'.mode = hb.mode BY <3>1
        <3>3. hb.mode = agent.mode BY <2>4, Zenon DEF ReconcileNodeControlMode, ModeInv, GenInv
        <3> QED BY <3>2, <3>3, Zenon DEF ModeInv, SettledInv
    <2> QED BY <2>1, <2>2, <2>3, <2>4, Zenon DEF Next, Elsewhere
<1>3. ModeInv /\ [Next]_vars => [Back /\ Booked]_vars BY <1>1, <1>2, Zenon
<1> QED BY <1>3, ModeInvariant, PTL DEF Spec, ReturnsDrained

---------------------------------------------------------------------------
(* No write is forgotten.                                                  *)

\* The writes up to the n-th are archived, but for those made after the
\* evidence of a conflict was taken.
Covered(n) == \A w \in 1..n : w <= archived \/ w \in adapter.late

\* A row was opened for a write that was made, what its workflow has captured
\* contains that write, and a completion command follows a verified copy or a
\* resolution.
RowInv(m) ==
    /\ rec[m].state # "none" => m <= adapter.written
    /\ rec[m].state = "none" => rec[m].workflow = "none" /\ ~rec[m].resolved
    /\ rec[m].workflow \in {"captured", "succeeded"} => rec[m].content >= m
    /\ rec[m].workflow = "succeeded" => archived >= m
    /\ rec[m].resolved \/ rec[m].command => Covered(m)

\* Evidence that was taken contains every write that is not marked as late.
EvidenceInv ==
    evidence > 0 => \A w \in 1..adapter.written : w <= evidence \/ w \in adapter.late

MarkerInv ==
    /\ adapter.marker \in {NoMarker, adapter.written}
    /\ agent.marker \in Nat /\ agent.marker <= adapter.written
    /\ hb.at = "sent" => hb.marker \in Nat /\ hb.marker <= adapter.written

WriteInv ==
    /\ GenInv /\ RecShape /\ EvidenceInv
    /\ MarkerInv /\ \A m \in Markers : RowInv(m)
    /\ NoWriteForgotten

\* A step that is none of the heartbeat's takes evidence of what the adapter
\* has, ends a conflict, or leaves the evidence.
LEMMA EvidenceElsewhere ==
    ASSUME Elsewhere
    PROVE  evidence' \in {0, evidence} \/ (evidence' = adapter.written /\ UNCHANGED adapter)
<1>1. CASE IndependentLogin \/ IndependentWrite \/ EndSession \/ PromoteControllerEpoch
           \/ ConfirmReplicaTakeover
    BY <1>1, Zenon DEF IndependentLogin, IndependentWrite, EndSession, controller,
       PromoteControllerEpoch, ConfirmReplicaTakeover
<1>2. CASE \E m \in Markers : \/ Work(m) \/ FailSnapshotWorkflow(m)
                              \/ RetryIndependentReconciliationCompletion(m)
    BY <1>2, Zenon DEF Work, CreateIndependentReconciliationSnapshot, CaptureSnapshot,
       CompleteSnapshotWorkflow, RestartIndependentReconciliationSnapshot,
       BeginIndependentReconciliationCompletion, CompleteIndependentReconciliation,
       FailSnapshotWorkflow, RetryIndependentReconciliationCompletion
<1>3. CASE CaptureConflictEvidence BY <1>3, Zenon DEF CaptureConflictEvidence
<1>4. CASE CompleteConflictResolution BY <1>4, Zenon DEF CompleteConflictResolution
<1> QED BY <1>1, <1>2, <1>3, <1>4, Zenon DEF Elsewhere

\* The steps of sessions, the worker and the other nodes.
LEMMA WriteElsewhere ==
    ASSUME WriteInv, Next, Elsewhere
    PROVE  WriteInv'
<1>1. GenInv' BY GenStep, Zenon DEF WriteInv
<1>2. IsAdapter(adapter) /\ Shape BY Zenon DEF WriteInv, GenInv, Shape
<1>3. RecShape' /\ archived' >= archived /\ \A k \in Markers : Follows(rec[k], rec'[k])
    BY <1>2, RowsElsewhere, Zenon DEF WriteInv
<1>4. UNCHANGED agent /\ UNCHANGED hb BY <1>2, AdapterElsewhere, Zenon
<1>5. \/ /\ adapter'.marker = adapter.marker /\ adapter'.written = adapter.written
         /\ adapter'.late = adapter.late
      \/ /\ adapter'.marker = adapter.written + 1 /\ adapter'.written = adapter.written + 1
         /\ adapter'.late = adapter.late \cup {w \in {adapter.written + 1} : evidence > 0}
         /\ adapter' # adapter
      \/ /\ \E m \in Markers : rec[m].command /\ CompletionAccepted(m)
         /\ adapter'.marker = NoMarker /\ adapter'.written = adapter.written
         /\ adapter'.late = adapter.late
    <2>1. adapter.written \in Nat BY Zenon DEF WriteInv, RecShape
    <2>2. adapter'.written = adapter.written + 1 => adapter' # adapter BY <2>1
    <2> QED BY <1>2, <2>2, AdapterElsewhere, Zenon
<1>6. /\ archived \in Nat /\ archived' \in Nat /\ adapter.written \in Nat
      /\ evidence \in Nat /\ evidence' \in Nat
    BY <1>3, Zenon DEF WriteInv, RecShape
<1>7. adapter'.written \in Nat /\ adapter'.written >= adapter.written BY <1>5, <1>6
<1>8. \A w : w \in adapter.late => w \in adapter'.late BY <1>5, Zenon
<1>9. ASSUME NEW n \in Nat, Covered(n) PROVE Covered(n)'
    <2>1. ASSUME NEW w \in 1..n PROVE w <= archived' \/ w \in adapter'.late
        <3>1. w \in Nat /\ (w <= archived \/ w \in adapter.late) BY <1>9 DEF Covered
        <3>2. w <= archived => w <= archived' BY <1>3, <1>6, <3>1
        <3> QED BY <1>8, <3>1, <3>2, Zenon
    <2> QED BY <2>1 DEF Covered
<1>10. EvidenceInv'
    <2> SUFFICES ASSUME evidence' > 0, NEW w \in 1..adapter'.written
                 PROVE  w <= evidence' \/ w \in adapter'.late
        BY DEF EvidenceInv
    <2>1. evidence' # 0 BY <1>6
    <2>2. CASE evidence' = evidence
        <3>1. CASE w \in 1..adapter.written
            <4>1. w <= evidence \/ w \in adapter.late
                BY <2>2, <3>1, Zenon DEF WriteInv, EvidenceInv
            <4> QED BY <1>8, <2>2, <4>1, Zenon
        <3>2. CASE w \notin 1..adapter.written
            <4>1. adapter'.written = adapter.written + 1 /\ w = adapter.written + 1
                BY <1>5, <1>6, <3>2
            <4>2. adapter'.written # adapter.written BY <1>6, <4>1
            <4>3. adapter'.late = adapter.late \cup {x \in {adapter.written + 1} : evidence > 0}
                BY <1>5, <4>2, Zenon
            <4> QED BY <2>2, <4>1, <4>3
        <3> QED BY <3>1, <3>2, Zenon
    <2>3. CASE evidence' = adapter.written /\ UNCHANGED adapter
        <3>1. w \in 1..adapter.written BY <2>3, Zenon
        <3> QED BY <1>6, <2>3, <3>1
    <2> QED BY <2>1, <2>2, <2>3, EvidenceElsewhere, Zenon
<1>11. MarkerInv'
    <2>1. adapter'.marker \in {NoMarker, adapter'.written}
        BY <1>5, Zenon DEF WriteInv, MarkerInv
    <2>2. agent.marker <= adapter'.written /\ agent.marker \in Nat
        BY <1>6, <1>7 DEF WriteInv, MarkerInv
    <2>3. hb.at = "sent" => hb.marker \in Nat /\ hb.marker <= adapter'.written
        BY <1>6, <1>7 DEF WriteInv, MarkerInv
    <2> QED BY <1>4, <2>1, <2>2, <2>3, Zenon DEF MarkerInv
<1>12. ASSUME NEW m \in Markers PROVE RowInv(m)'
    <2>1. PICK r : r = rec[m] BY Zenon
    <2>2. PICK row : row = rec'[m] BY Zenon
    <2>3. Follows(r, row) BY <1>3, <2>1, <2>2, Zenon
    <2>4. /\ r.state # "none" => m <= adapter.written
          /\ r.state = "none" => r.workflow = "none" /\ ~r.resolved
          /\ r.workflow \in {"captured", "succeeded"} => r.content >= m
          /\ r.workflow = "succeeded" => archived >= m
          /\ r.resolved \/ r.command => Covered(m)
        BY <2>1, Zenon DEF WriteInv, RowInv
    <2>5. m \in Nat /\ r.content \in Nat
        BY <2>1, ControlModeAssumption DEF Markers, WriteInv, RecShape, IsRow
    <2>6. row.state # "none" => m <= adapter'.written
        <3>1. row.state # "none" => r.state # "none" BY <2>3, <2>4, Zenon DEF Follows
        <3> QED BY <1>6, <1>7, <2>4, <2>5, <3>1
    <2>7. row.state = "none" => row.workflow = "none" /\ ~row.resolved
        BY <2>3, <2>4, Zenon DEF Follows
    <2>8. row.workflow \in {"captured", "succeeded"} => row.content >= m
        <3>1. SUFFICES ASSUME row.workflow \in {"captured", "succeeded"} PROVE row.content >= m
            OBVIOUS
        <3>2. CASE r.workflow \in {"captured", "succeeded"} /\ row.content = r.content
            BY <2>4, <3>2, Zenon
        <3>3. CASE r.workflow = "running" /\ row.content = adapter.written
            <4>1. r.state # "none" BY <2>4, <3>3
            <4> QED BY <1>6, <2>4, <2>5, <3>3, <4>1
        <3> QED BY <2>3, <3>1, <3>2, <3>3, Zenon DEF Follows
    <2>9. archived >= m => archived' >= m BY <1>3, <1>6, <2>5
    <2>10. row.workflow = "succeeded" => archived' >= m
        <3>1. r.workflow = "captured" /\ archived' >= r.content => archived' >= m
            BY <1>6, <2>4, <2>5
        <3> QED BY <2>3, <2>4, <2>9, <3>1, Zenon DEF Follows
    <2>11. Covered(m) => Covered(m)' BY <1>9, <2>5
    <2>12. archived >= m => Covered(m) BY <1>6, <2>5 DEF Covered
    <2>13. row.command => Covered(m)'
        BY <2>3, <2>4, <2>11, <2>12, Zenon DEF Follows
    <2>14. ASSUME row.resolved PROVE Covered(m)'
        <3>1. CASE r.resolved BY <2>4, <2>11, <3>1, Zenon
        <3>2. CASE r.state # "none" /\ evidence > 0 /\ archived' >= evidence
            <4>1. ASSUME NEW w \in 1..m PROVE w <= archived' \/ w \in adapter'.late
                <5>1. w \in 1..adapter.written BY <1>6, <2>4, <2>5, <3>2
                <5>2. w <= evidence \/ w \in adapter.late
                    BY <3>2, <5>1, Zenon DEF WriteInv, EvidenceInv
                <5>3. w <= evidence => w <= archived' BY <1>6, <3>2, <5>1
                <5> QED BY <1>8, <5>2, <5>3, Zenon
            <4> QED BY <4>1 DEF Covered
        <3> QED BY <2>3, <2>14, <3>1, <3>2, Zenon DEF Follows
    <2> QED BY <2>2, <2>6, <2>7, <2>8, <2>10, <2>13, <2>14, Zenon DEF RowInv
<1>13. NoWriteForgotten'
    <2>1. adapter.marker = NoMarker => Covered(adapter.written)
        BY Zenon DEF WriteInv, NoWriteForgotten, Covered
    <2>2. SUFFICES ASSUME adapter'.marker = NoMarker
                   PROVE  adapter'.written = adapter.written /\ Covered(adapter.written)
        <3>1. adapter'.written = adapter.written /\ Covered(adapter.written) =>
                \A w \in 1..adapter'.written : w <= archived' \/ w \in adapter'.late
            BY <1>6, <1>9 DEF Covered
        <3> QED BY <3>1, Zenon DEF NoWriteForgotten
    <2>3. CASE adapter'.marker = adapter.marker /\ adapter'.written = adapter.written
        BY <2>1, <2>2, <2>3, Zenon
    <2>4. CASE adapter'.marker = adapter.written + 1 /\ adapter'.written = adapter.written + 1
        BY <1>6, <2>2, <2>4 DEF NoMarker
    <2>5. CASE /\ \E m \in Markers : rec[m].command /\ CompletionAccepted(m)
               /\ adapter'.marker = NoMarker /\ adapter'.written = adapter.written
        <3>1. PICK m \in Markers : rec[m].command /\ CompletionAccepted(m) BY <2>5, Zenon
        <3>2. Covered(m) BY <3>1, Zenon DEF WriteInv, RowInv
        <3>3. adapter.marker = m => m = adapter.written
            BY ControlModeAssumption DEF Markers, NoMarker, WriteInv, MarkerInv
        <3> QED BY <2>1, <2>5, <3>1, <3>2, <3>3, Zenon DEF CompletionAccepted
    <2> QED BY <1>5, <2>3, <2>4, <2>5, Zenon
<1> QED BY <1>1, <1>3, <1>10, <1>11, <1>12, <1>13, Zenon DEF WriteInv

\* The heartbeat loop.
LEMMA WriteLoop ==
    ASSUME WriteInv, Next, SendHeartbeat \/ HeartbeatSucceeds \/ HeartbeatFails
    PROVE  WriteInv'
<1>1. GenInv' BY GenStep, Zenon DEF WriteInv
<1>2. UNCHANGED rec /\ UNCHANGED archived /\ UNCHANGED evidence BY LoopFrame, Zenon
<1>3. Shape /\ IsAgent(agent) /\ IsAdapter(adapter) BY Zenon DEF WriteInv, GenInv, Shape
<1>4. /\ adapter'.marker = adapter.marker /\ adapter'.written = adapter.written
      /\ adapter'.late = adapter.late
      /\ agent'.marker \in {agent.marker, adapter.marker}
      /\ hb'.at = "sent" => hb'.marker = agent'.marker
    <2>1. CASE SendHeartbeat
        <3>1. /\ adapter'.marker = adapter.marker /\ adapter'.written = adapter.written
              /\ adapter'.late = adapter.late
              /\ agent'.marker = agent.marker \/ agent'.marker = adapter.marker
              /\ hb'.marker = agent'.marker
            BY <1>3, <2>1, SendIs, Zenon
        <3> QED BY <3>1, Zenon
    <2>2. CASE HeartbeatSucceeds \/ HeartbeatFails
        <3>1. PICK f, applies : Enters(f, applies) BY <2>2, LoopEnters, Zenon DEF WriteInv
        <3>2. agent'.marker = f.marker
              /\ adapter'.marker = adapter.marker /\ adapter'.written = adapter.written
              /\ adapter'.late = adapter.late
            BY <1>3, <3>1, EntersIs, Zenon
        <3>3. f.marker = agent.marker BY <3>1, Zenon DEF Enters, SameFacts
        <3>4. hb' = Idle BY <2>2, Zenon DEF HeartbeatSucceeds, HeartbeatFails
        <3>5. hb'.at # "sent" BY <3>4 DEF Idle
        <3> QED BY <3>2, <3>3, <3>5, Zenon
    <2> QED BY <2>1, <2>2, Zenon
<1>5. RecShape' BY <1>2, <1>4, Zenon DEF WriteInv, RecShape
<1>6. MarkerInv'
    <2>1. agent'.marker \in Nat /\ agent'.marker <= adapter.written
        BY <1>4 DEF WriteInv, MarkerInv, NoMarker, RecShape
    <2> QED BY <1>4, <2>1, Zenon DEF WriteInv, MarkerInv
<1>7. \A m \in Markers : RowInv(m)' BY <1>2, <1>4, Zenon DEF WriteInv, RowInv, Covered
<1>8. NoWriteForgotten' /\ EvidenceInv'
    BY <1>2, <1>4, Zenon DEF WriteInv, NoWriteForgotten, EvidenceInv
<1> QED BY <1>1, <1>5, <1>6, <1>7, <1>8, Zenon DEF WriteInv

\* The Controller handles a report.
LEMMA WriteReconcile ==
    ASSUME WriteInv, Next, ReconcileNodeControlMode \/ ReconcileRecovery \/ ReconcileRefused
    PROVE  WriteInv'
<1>1. GenInv' BY GenStep, Zenon DEF WriteInv
<1>2. /\ UNCHANGED agent /\ UNCHANGED adapter /\ hb.at = "sent"
      /\ UNCHANGED archived /\ UNCHANGED evidence
      /\ hb'.at \in {"answered", "rejected"}
    BY ReconcileFrame, Zenon
<1>3. hb'.at # "sent" BY <1>2
<1>4. MarkerInv' BY <1>2, <1>3, Zenon DEF WriteInv, MarkerInv
<1>5. NoWriteForgotten' /\ EvidenceInv'
    BY <1>2, Zenon DEF WriteInv, NoWriteForgotten, EvidenceInv
<1>6. CASE ReconcileNodeControlMode
    <2>1. RecShape BY Zenon DEF WriteInv
    <2>2. RecShape' BY <1>2, <1>6, <2>1, RowsReconciled, Zenon DEF RecShape
    <2>3. ASSUME NEW m \in Markers PROVE RowInv(m)'
        <3>1. PICK r : r = rec[m] BY Zenon
        <3>2. PICK row : row = rec'[m] BY Zenon
        <3>3. \/ row = r
              \/ /\ m = hb.marker /\ r.state = "none"
                 /\ row.state = IF atHome THEN "pending" ELSE "conflict"
                 /\ row.workflow = "none" /\ ~row.resolved /\ ~row.command
              \/ /\ r.state # "none" /\ row.state = "superseded"
                 /\ row.workflow \in {r.workflow, "cancelled"}
                 /\ row.content = r.content /\ row.resolved = r.resolved
                 /\ row.command = r.command
            BY <1>6, <2>1, <3>1, <3>2, RowsReconciled, Zenon
        <3>4. /\ r.state # "none" => m <= adapter.written
              /\ r.state = "none" => r.workflow = "none" /\ ~r.resolved
              /\ r.workflow \in {"captured", "succeeded"} => r.content >= m
              /\ r.workflow = "succeeded" => archived >= m
              /\ r.resolved \/ r.command => Covered(m)
            BY <3>1, Zenon DEF WriteInv, RowInv
        <3>5. hb.marker <= adapter.written BY <1>2, Zenon DEF WriteInv, MarkerInv
        <3>6. /\ row.state # "none" => m <= adapter.written
              /\ row.state = "none" => row.workflow = "none" /\ ~row.resolved
              /\ row.workflow \in {"captured", "succeeded"} => row.content >= m
              /\ row.workflow = "succeeded" => archived >= m
              /\ row.resolved \/ row.command => Covered(m)
            BY <3>3, <3>4, <3>5
        <3> QED BY <1>2, <3>2, <3>6, Zenon DEF RowInv, Covered
    <2> QED BY <1>1, <1>2, <1>4, <1>5, <2>2, <2>3, Zenon DEF WriteInv
<1>7. CASE ReconcileRecovery \/ ReconcileRefused
    <2>1. UNCHANGED rec
        BY <1>7, Zenon DEF ReconcileRecovery, ReconcileRefused, controller
    <2>2. RecShape' /\ \A m \in Markers : RowInv(m)'
        BY <1>2, <2>1, Zenon DEF WriteInv, RecShape, RowInv, Covered
    <2> QED BY <1>1, <1>2, <1>4, <1>5, <2>2, Zenon DEF WriteInv
<1> QED BY <1>6, <1>7, Zenon

\* Initially there is nothing to forget.
LEMMA WriteInit == Init => WriteInv
<1> SUFFICES ASSUME Init PROVE WriteInv OBVIOUS
<1>1. GenInv /\ RecShape BY ModeInit, Zenon DEF ModeInv
<1>2. agent.marker = 0 /\ adapter.marker = NoMarker /\ adapter.written = 0
    BY DEF Init, NoMarker
<1>3. evidence = 0 /\ archived = 0 BY Zenon DEF Init
<1>4. hb.at # "sent" BY DEF Init, Idle
<1>5. MarkerInv /\ NoWriteForgotten /\ EvidenceInv
    BY <1>2, <1>3, <1>4 DEF MarkerInv, NoWriteForgotten, EvidenceInv
<1>6. ASSUME NEW m \in Markers PROVE RowInv(m)
    <2>1. rec[m] = NoRow BY Zenon DEF Init
    <2>2. /\ rec[m].state = "none" /\ rec[m].workflow = "none" /\ rec[m].resolved = FALSE
          /\ rec[m].command = FALSE
        BY <2>1 DEF NoRow
    <2> QED BY <2>2 DEF RowInv
<1> QED BY <1>1, <1>5, <1>6, Zenon DEF WriteInv

\* A stuttering step.
LEMMA WriteStutter == WriteInv /\ UNCHANGED vars => WriteInv'
<1>1. SUFFICES ASSUME WriteInv, UNCHANGED vars PROVE WriteInv' OBVIOUS
<1>2. GenInv' BY <1>1, GenStutter, Zenon DEF WriteInv
<1>3. /\ UNCHANGED agent /\ UNCHANGED adapter /\ UNCHANGED hb /\ UNCHANGED rec
      /\ UNCHANGED archived /\ UNCHANGED evidence
    BY <1>1, Zenon DEF vars, controller
<1> QED BY <1>1, <1>2, <1>3, Zenon DEF WriteInv, RecShape, MarkerInv, RowInv, Covered,
       EvidenceInv, NoWriteForgotten

\* Every reachable state satisfies WriteInv.
THEOREM WriteInvariant == Spec => []WriteInv
<1>1. WriteInv /\ Next => WriteInv'
    <2>1. Next => \/ Elsewhere \/ SendHeartbeat \/ HeartbeatSucceeds \/ HeartbeatFails
                  \/ ReconcileNodeControlMode \/ ReconcileRecovery \/ ReconcileRefused
        BY Zenon DEF Next, Elsewhere
    <2> QED BY <2>1, WriteElsewhere, WriteLoop, WriteReconcile, Zenon
<1>2. WriteInv /\ [Next]_vars => WriteInv' BY <1>1, WriteStutter
<1> QED BY <1>2, WriteInit, PTL DEF Spec

\* The adapter forgets an independent write only when a verified snapshot or a
\* resolved conflict contains it, whatever is written while an earlier marker
\* is archived and completed and wherever the home is, or when it was made
\* after the evidence of the conflict was taken
\* (BeginIndependentReconciliationCompletion and the worker).
THEOREM NoWriteForgottenTheorem == Spec => []NoWriteForgotten
<1>1. WriteInv => NoWriteForgotten BY Zenon DEF WriteInv
<1> QED BY <1>1, WriteInvariant, PTL

------------------------------------------------------------------------------
(* Leadership, which gives out the generations the modes are compared with: *)
(* for any processes, any resume window and any number of restarts.         *)

\* The inductive invariant.  The lock plays no part in it: a generation passes
\* from one process to the next only through the clean-shutdown record.
LeadershipInv ==
    /\ LeadershipTypeOK
    /\ \A p \in Serving : gen[p] \in 1..activeGen
    /\ NoSharedGeneration
    /\ NoResumeAfterUncleanStop
    /\ RecordMeansReleased

\* The invariant holds of an empty deployment.
LEMMA InitLeadershipInv == LeadershipInit => LeadershipInv
  BY LeadershipAssumption
  DEF LeadershipInit, LeadershipInv, LeadershipTypeOK, Phases, Serving, NoSharedGeneration,
      NoResumeAfterUncleanStop, RecordMeansReleased

\* A step in which no process starts to serve, and which neither writes a
\* clean-shutdown record nor changes the active generation, keeps the invariant
\* when it taints only generations a serving process gives up.
LEMMA Retreat ==
  ASSUME LeadershipInv, NEW p \in Procs, NEW phase \in Phases \ {"leading", "stopping"},
         Goto(p, phase), Taint(p), gen' = gen, activeGen' = activeGen,
         cleanAt' = cleanAt, now' = now, signalled' \subseteq Procs,
         lock' \in Procs \cup {NoProc}
  PROVE  LeadershipInv'
  <1>1. LeadershipTypeOK'
    BY Zenon DEF LeadershipInv, LeadershipTypeOK, Goto, Taint, Serving, Phases
  <1>2. Serving' = Serving \ {p}
    BY Zenon DEF LeadershipInv, LeadershipTypeOK, Goto, Serving, Phases
  <1>3. NoSharedGeneration' /\ \A q \in Serving' : gen'[q] \in 1..activeGen'
    BY <1>2, Zenon DEF LeadershipInv, NoSharedGeneration
  <1>4. NoResumeAfterUncleanStop'
    BY <1>2, Zenon DEF LeadershipInv, NoSharedGeneration, NoResumeAfterUncleanStop, Taint
  <1>5. RecordMeansReleased'
    BY <1>2, Zenon DEF LeadershipInv, RecordMeansReleased, Taint
  <1> QED BY <1>1, <1>3, <1>4, <1>5, Zenon DEF LeadershipInv

\* A step that leaves every serving process, every generation and the record
\* alone keeps the invariant.
LEMMA Quiet ==
  ASSUME LeadershipInv, LeadershipTypeOK', Serving' = Serving, gen' = gen,
         activeGen' = activeGen, cleanAt' \subseteq cleanAt, unclean' = unclean
  PROVE  LeadershipInv'
  BY Zenon DEF LeadershipInv, NoSharedGeneration, NoResumeAfterUncleanStop, RecordMeansReleased

\* A promotion takes a generation nobody serves under.
LEMMA PromoteIInv ==
  ASSUME LeadershipInv, NEW p \in Procs, Promote(p)
  PROVE  LeadershipInv'
  <1>1. LeadershipTypeOK'
    BY DEF LeadershipInv, LeadershipTypeOK, Promote, PromoteEpoch, NextGeneration, Goto, Phases
  <1>2. Serving' = Serving \cup {p}
    BY Zenon DEF LeadershipInv, LeadershipTypeOK, Promote, Goto, Serving, Phases
  <1>3. p \notin Serving /\ gen'[p] = activeGen + 1 /\ activeGen' = activeGen + 1
    BY Zenon DEF LeadershipInv, LeadershipTypeOK, Promote, PromoteEpoch, NextGeneration, Serving
  <1>4. \A q \in Serving : gen'[q] = gen[q] /\ gen[q] \in 1..activeGen
    BY <1>3, Zenon DEF LeadershipInv, LeadershipTypeOK, Promote, Serving
  <1>5. \A q \in Serving' : gen'[q] \in 1..activeGen'
    BY <1>2, <1>3, <1>4 DEF LeadershipInv, LeadershipTypeOK
  <1>6. NoSharedGeneration'
    BY <1>2, <1>3, <1>4 DEF LeadershipInv, LeadershipTypeOK, NoSharedGeneration
  <1>7. NoResumeAfterUncleanStop'
    BY <1>2, <1>3, <1>4
    DEF LeadershipInv, LeadershipTypeOK, NoResumeAfterUncleanStop, Promote
  <1>8. RecordMeansReleased'
    BY Zenon DEF RecordMeansReleased, Promote, PromoteEpoch
  <1> QED BY <1>1, <1>5, <1>6, <1>7, <1>8, Zenon DEF LeadershipInv

\* A resume consumes the record of the clean shutdown it relies on.
LEMMA ResumeIInv ==
  ASSUME LeadershipInv, NEW p \in Procs, Resume(p)
  PROVE  LeadershipInv'
  <1>1. LeadershipTypeOK'
    BY Zenon DEF LeadershipInv, LeadershipTypeOK, Resume, ConsumeMark, Goto, Phases
  <1>2. CASE MarkUsable
    <2>1. cleanAt # {}
      BY <1>2, Zenon DEF MarkUsable
    <2>2. Serving' = Serving \cup {p}
      BY <1>2, Zenon DEF LeadershipInv, LeadershipTypeOK, Resume, Goto, Serving, Phases
    <2>3. p \notin Serving /\ gen'[p] = activeGen /\ activeGen' = activeGen
      BY <1>2, Zenon DEF LeadershipInv, LeadershipTypeOK, Resume, Serving
    <2>4. \A q \in Serving : gen'[q] = gen[q] /\ gen[q] # activeGen
      BY <1>2, <2>1, <2>3, Zenon
      DEF LeadershipInv, LeadershipTypeOK, Resume, Serving, RecordMeansReleased
    <2>5. \A q \in Serving' : gen'[q] \in 1..activeGen'
      BY <2>2, <2>3, <2>4 DEF LeadershipInv, LeadershipTypeOK
    <2>6. NoSharedGeneration'
      BY <2>2, <2>3, <2>4 DEF LeadershipInv, NoSharedGeneration
    <2>7. NoResumeAfterUncleanStop'
      BY <2>1, <2>2, <2>3, <2>4, Zenon
      DEF LeadershipInv, NoResumeAfterUncleanStop, RecordMeansReleased, Resume
    <2>8. RecordMeansReleased'
      BY Zenon DEF RecordMeansReleased, Resume, ConsumeMark
    <2> QED BY <1>1, <2>5, <2>6, <2>7, <2>8 DEF LeadershipInv
  <1>3. CASE ~MarkUsable
    <2>1. Serving' = Serving
      BY <1>3, Zenon DEF LeadershipInv, LeadershipTypeOK, Resume, Goto, Serving, Phases
    <2> QED BY <1>1, <1>3, <2>1, Quiet, Zenon DEF Resume, ConsumeMark
  <1> QED BY <1>2, <1>3, Zenon

\* A startup that fails after its promotion keeps no generation.
LEMMA StartupFailsIInv ==
  ASSUME LeadershipInv, NEW p \in Procs, StartupFails(p)
  PROVE  LeadershipInv'
  <1>1. LeadershipTypeOK'
    <2>1. /\ activeGen' \in {activeGen, activeGen + 1}
          /\ cleanAt' \subseteq cleanAt
      BY Zenon DEF StartupFails, PromoteEpoch, NextGeneration, ConsumeMark
    <2>2. pc' \in [Procs -> Phases]
      BY Zenon DEF LeadershipInv, LeadershipTypeOK, StartupFails, Goto, Phases
    <2> QED BY <2>1, <2>2 DEF LeadershipInv, LeadershipTypeOK, StartupFails
  <1>2. Serving' = Serving
    BY Zenon DEF LeadershipInv, LeadershipTypeOK, StartupFails, Goto, Serving, Phases
  <1>3. CASE activeGen' = activeGen
    BY <1>1, <1>2, <1>3, Quiet, Zenon
    DEF StartupFails, PromoteEpoch, ConsumeMark
  <1>4. CASE activeGen' = activeGen + 1 /\ cleanAt' = {}
    BY <1>1, <1>2, <1>4
    DEF LeadershipInv, LeadershipTypeOK, StartupFails, NoSharedGeneration,
        NoResumeAfterUncleanStop, RecordMeansReleased
  <1> QED
    BY <1>3, <1>4, Zenon DEF StartupFails, PromoteEpoch, NextGeneration

\* The record of a clean shutdown is written by a process that stops serving.
LEMMA MarkIInv ==
  ASSUME LeadershipInv, NEW p \in Procs, MarkCleanShutdown(p)
  PROVE  LeadershipInv'
  <1>1. LeadershipTypeOK'
    BY DEF LeadershipInv, LeadershipTypeOK, MarkCleanShutdown, Goto, Phases
  <1>2. Serving' = Serving \ {p} /\ p \in Serving /\ gen[p] = activeGen
    BY Zenon DEF LeadershipInv, LeadershipTypeOK, MarkCleanShutdown, MarkAllowed, Goto, Serving, Phases
  <1> QED
    BY <1>1, <1>2, Zenon
    DEF LeadershipInv, MarkCleanShutdown, NoSharedGeneration, NoResumeAfterUncleanStop,
        RecordMeansReleased

\* Every step keeps the invariant.
LEMMA NextLeadershipInv == LeadershipInv /\ [LeadershipNext]_leadershipVars => LeadershipInv'
  <1> SUFFICES ASSUME LeadershipInv, [LeadershipNext]_leadershipVars PROVE LeadershipInv'
    BY Zenon
  <1>1. CASE UNCHANGED leadershipVars
    BY <1>1, Zenon
    DEF LeadershipInv, LeadershipTypeOK, leadershipVars, Serving, NoSharedGeneration,
        NoResumeAfterUncleanStop, RecordMeansReleased
  <1>2. CASE DropLockSession \/ Tick
    <2>1. LeadershipTypeOK'
      <3>1. CASE DropLockSession
        BY <3>1, Zenon DEF LeadershipInv, LeadershipTypeOK, DropLockSession
      <3>2. CASE Tick
        BY <3>2, LeadershipAssumption DEF LeadershipInv, LeadershipTypeOK, Tick
      <3> QED BY <1>2, <3>1, <3>2, Zenon
    <2>2. Serving' = Serving
      BY <1>2, Zenon DEF DropLockSession, Tick, Serving
    <2> QED BY <1>2, <2>1, <2>2, Quiet, Zenon DEF DropLockSession, Tick
  <1>3. ASSUME NEW p \in Procs,
               Start(p) \/ TryAcquire(p) \/ GiveUp(p) \/ SkipResume(p)
                 \/ RunStops(p) \/ Close(p) \/ Signal(p)
        PROVE  LeadershipInv'
    <2>1. LeadershipTypeOK'
      BY <1>3, Zenon
      DEF LeadershipInv, LeadershipTypeOK, Start, TryAcquire, GiveUp, SkipResume, RunStops, Close,
          Signal, Goto, FreeLock, Phases
    <2>2. Serving' = Serving
      BY <1>3, Zenon
      DEF LeadershipInv, LeadershipTypeOK, Start, TryAcquire, GiveUp, SkipResume, RunStops, Close,
          Signal, Goto, Phases, Serving
    <2> QED
      BY <1>3, <2>1, <2>2, Quiet, Zenon
      DEF Start, TryAcquire, GiveUp, SkipResume, RunStops, Close, Signal
  <1>4. ASSUME NEW p \in Procs, RunReturns(p) \/ MarkFails(p) \/ Crash(p)
        PROVE  LeadershipInv'
    <2>1. \E phase \in Phases \ {"leading", "stopping"} : Goto(p, phase)
      BY <1>4, Zenon DEF RunReturns, MarkFails, Crash, Phases
    <2> QED
      BY <1>4, <2>1, Retreat, Zenon DEF RunReturns, MarkFails, Crash, LeadershipInv, LeadershipTypeOK
  <1> QED
    BY <1>1, <1>2, <1>3, <1>4, ResumeIInv, PromoteIInv, StartupFailsIInv, MarkIInv, Zenon
    DEF LeadershipNext, Process, Environment

\* Leadership keeps its types, never shares a generation between two serving
\* processes, and resumes a generation only when its last leader recorded a
\* clean shutdown, for every set of processes and every resume window.
THEOREM LeadershipSafety ==
  LeadershipSpec => [](LeadershipTypeOK /\ NoSharedGeneration /\ NoResumeAfterUncleanStop
             /\ RecordMeansReleased)
  <1>1. LeadershipInv => LeadershipTypeOK /\ NoSharedGeneration /\ NoResumeAfterUncleanStop
                 /\ RecordMeansReleased
    BY Zenon DEF LeadershipInv
  <1> QED BY InitLeadershipInv, NextLeadershipInv, <1>1, PTL DEF LeadershipSpec

\* A generation that some leader left without a clean-shutdown record is never
\* served again, however many processes crash, lose the lock or overlap, and
\* whatever the resume window (ResumeControllerEpoch).
THEOREM UncleanStopNeverResumed == LeadershipSpec => []NoResumeAfterUncleanStop
  <1>1. LeadershipTypeOK /\ NoSharedGeneration /\ NoResumeAfterUncleanStop /\ RecordMeansReleased
          => NoResumeAfterUncleanStop
    BY Zenon
  <1> QED BY <1>1, LeadershipSafety, PTL

===========================================================================
