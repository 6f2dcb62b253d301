---------------------------- MODULE Leadership ----------------------------
(***************************************************************************)
(* Controller leadership and generations (store/leadership.go) as driven   *)
(* by the life of a Controller process (cmd/controller/main.go).           *)
(*                                                                         *)
(* A process pins the PostgreSQL advisory lock to one connection, then     *)
(* either resumes the active generation, when its predecessor recorded a   *)
(* clean shutdown recently, or promotes a new one.  Resume and promote run *)
(* on the connection pool, not on the lock connection.  The lock is freed  *)
(* whenever PostgreSQL drops the lock connection; the process learns of it *)
(* only at its next Watch poll.                                            *)
(***************************************************************************)
EXTENDS Naturals, FiniteSets

CONSTANTS Procs,         \* Controller process incarnations, each runs once
          Passive,       \* those started with --passive
          Explicit,      \* those started with --promote
          NoProc,        \* the advisory lock is free
          ResumeWindow,  \* cleanRestartResumeWindow, in clock ticks
          MaxNow         \* bound on the clock

ASSUME LeadershipAssumption ==
    /\ Passive \subseteq Procs
    /\ Explicit \subseteq Procs
    /\ NoProc \notin Procs
    /\ ResumeWindow \in Nat
    /\ MaxNow \in Nat

VARIABLES pc,         \* where each process is in runController
          signalled,  \* processes whose ctx SIGINT/SIGTERM has cancelled
          gen,        \* the process's own `generation` variable
          lock,       \* holder of controllerAdvisoryLockID
          activeGen,  \* the controller_epochs row with state 'active'
          cleanAt,    \* its clean_shutdown_at, a set of at most one time
          unclean,    \* history: generations some leader left without a record
          now

leadershipVars == <<pc, signalled, gen, lock, activeGen, cleanAt, unclean, now>>

Phases == {"new", "waiting", "locked", "promoting", "leading", "stopping",
           "closing", "exited"}

\* A process of this phase answers requests or is still draining them.
Serving == {p \in Procs : pc[p] \in {"leading", "stopping"}}

LeadershipTypeOK ==
    /\ pc \in [Procs -> Phases]
    /\ signalled \subseteq Procs
    /\ gen \in [Procs -> Nat]
    /\ lock \in Procs \cup {NoProc}
    /\ activeGen \in Nat \ {0}
    /\ cleanAt \subseteq 0..now
    /\ unclean \subseteq 1..activeGen
    /\ now \in 0..MaxNow

\* Migration 0002 seeds generation 1 with no clean-shutdown record.
LeadershipInit ==
    /\ pc = [p \in Procs |-> "new"]
    /\ signalled = {}
    /\ gen = [p \in Procs |-> 0]
    /\ lock = NoProc
    /\ activeGen = 1
    /\ cleanAt = {}
    /\ unclean = {}
    /\ now = 0

---------------------------------------------------------------------------
\* A process that stops without a clean-shutdown record taints its generation.
Taint(p) == unclean' = IF p \in Serving THEN unclean \cup {gen[p]} ELSE unclean

Goto(p, phase) == pc' = [pc EXCEPT ![p] = phase]

FreeLock(p) == lock' = IF lock = p THEN NoProc ELSE lock

Start(p) ==
    /\ pc[p] = "new"
    /\ Goto(p, "waiting")
    /\ UNCHANGED <<signalled, gen, lock, activeGen, cleanAt, unclean, now>>

\* Mutant: only a process that is not passive gets past a busy lock.
TryAcquireOnce(p) ==
    /\ pc[p] = "waiting"
    /\ p \notin signalled \cup Passive
    /\ lock = NoProc
    /\ lock' = p
    /\ Goto(p, "locked")
    /\ UNCHANGED <<signalled, gen, activeGen, cleanAt, unclean, now>>

\* pg_try_advisory_lock succeeded; a cancelled ctx makes the call fail instead.
TryAcquire(p) ==
    /\ pc[p] = "waiting"
    /\ p \notin signalled
    /\ lock = NoProc
    /\ lock' = p
    /\ Goto(p, "locked")
    /\ UNCHANGED <<signalled, gen, activeGen, cleanAt, unclean, now>>

\* A process that is not passive gives up at once; a passive one sleeps five
\* seconds and retries until ctx is cancelled.
GiveUp(p) ==
    /\ pc[p] = "waiting"
    /\ \/ p \in signalled
       \/ p \notin Passive /\ lock # NoProc
    /\ Goto(p, "exited")
    /\ UNCHANGED <<signalled, gen, lock, activeGen, cleanAt, unclean, now>>

MarkUsable == \E t \in cleanAt : now - t <= ResumeWindow

\* Mutant: the record survives its use.
KeepMark == UNCHANGED cleanAt

ConsumeMark == cleanAt' = {}

\* ResumeControllerEpoch: the record is consumed whether or not it is used.
Resume(p) ==
    /\ pc[p] = "locked"
    /\ p \notin signalled
    /\ p \notin Passive \cup Explicit
    /\ ConsumeMark
    /\ IF MarkUsable
       THEN Goto(p, "leading") /\ gen' = [gen EXCEPT ![p] = activeGen]
       ELSE Goto(p, "promoting") /\ UNCHANGED gen
    /\ UNCHANGED <<signalled, lock, activeGen, unclean, now>>

SkipResume(p) ==
    /\ pc[p] = "locked"
    /\ p \in Passive \cup Explicit
    /\ Goto(p, "promoting")
    /\ UNCHANGED <<signalled, gen, lock, activeGen, cleanAt, unclean, now>>

NextGeneration == activeGen + 1

\* PromoteControllerEpoch: the old row is revoked and its successor, without a
\* clean-shutdown record, becomes the active one in the same transaction.  The
\* transaction does not look at the advisory lock.
PromoteEpoch ==
    /\ activeGen' = NextGeneration
    /\ cleanAt' = {}

Promote(p) ==
    /\ pc[p] = "promoting"
    /\ p \notin signalled
    /\ PromoteEpoch
    /\ gen' = [gen EXCEPT ![p] = NextGeneration]
    /\ Goto(p, "leading")
    /\ UNCHANGED <<signalled, lock, unclean, now>>

\* Startup returns an error before Run: resume or promote failed, its commit
\* possibly done but the acknowledgement lost, or the first administrator could
\* not be created afterwards.  The deferred Close runs.
StartupFails(p) ==
    /\ pc[p] \in {"locked", "promoting"}
    /\ Goto(p, "closing")
    /\ \/ /\ pc[p] = "locked" /\ p \notin signalled \cup Passive \cup Explicit
          /\ ConsumeMark /\ UNCHANGED activeGen
       \/ pc[p] = "promoting" /\ p \notin signalled /\ PromoteEpoch
       \/ UNCHANGED <<activeGen, cleanAt>>
    /\ UNCHANGED <<signalled, gen, lock, unclean, now>>

\* Run returns and ctx was not cancelled: a listener failed, or Watch found the
\* lock connection dead and cancelled runCtx.
RunReturns(p) ==
    /\ pc[p] = "leading"
    /\ p \notin signalled
    /\ Taint(p)
    /\ Goto(p, "closing")
    /\ UNCHANGED <<signalled, gen, lock, activeGen, cleanAt, now>>

\* Mutant: Watch keeps polling a dead connection without cancelling runCtx.
WatchIgnores(p) == FALSE /\ RunReturns(p)

WatchDetects(p) == lock # p /\ RunReturns(p)

\* Run returns because ctx was cancelled: HTTP servers are shut down first.
RunStops(p) ==
    /\ pc[p] = "leading"
    /\ p \in signalled
    /\ Goto(p, "stopping")
    /\ UNCHANGED <<signalled, gen, lock, activeGen, cleanAt, unclean, now>>

\* Mutant: the generation being recorded is not compared with the active one.
MarkAllowedAnyGeneration(p) == lock = p

MarkAllowed(p) == lock = p /\ gen[p] = activeGen

\* MarkCleanShutdown, on the lock connection.
MarkCleanShutdown(p) ==
    /\ pc[p] = "stopping"
    /\ MarkAllowed(p)
    /\ cleanAt' = {now}
    /\ Goto(p, "closing")
    /\ UNCHANGED <<signalled, gen, lock, activeGen, unclean, now>>

\* The update matched no row, or failed within its three seconds.
MarkFails(p) ==
    /\ pc[p] = "stopping"
    /\ Taint(p)
    /\ Goto(p, "closing")
    /\ UNCHANGED <<signalled, gen, lock, activeGen, cleanAt, now>>

\* The deferred leadership.Close and the end of the process.
Close(p) ==
    /\ pc[p] = "closing"
    /\ FreeLock(p)
    /\ Goto(p, "exited")
    /\ UNCHANGED <<signalled, gen, activeGen, cleanAt, unclean, now>>

---------------------------------------------------------------------------
\* The environment.
Signal(p) ==
    /\ pc[p] \notin {"new", "exited"}
    /\ p \notin signalled
    /\ signalled' = signalled \cup {p}
    /\ UNCHANGED <<pc, gen, lock, activeGen, cleanAt, unclean, now>>

\* The process dies; its lock session lingers until PostgreSQL drops it.
Crash(p) ==
    /\ pc[p] \notin {"new", "exited"}
    /\ Taint(p)
    /\ Goto(p, "exited")
    /\ UNCHANGED <<signalled, gen, lock, activeGen, cleanAt, now>>

\* PostgreSQL drops the session that holds the lock.
DropLockSession ==
    /\ lock # NoProc
    /\ lock' = NoProc
    /\ UNCHANGED <<pc, signalled, gen, activeGen, cleanAt, unclean, now>>

Tick ==
    /\ now < MaxNow
    /\ now' = now + 1
    /\ UNCHANGED <<pc, signalled, gen, lock, activeGen, cleanAt, unclean>>

Process(p) ==
    \/ Start(p) \/ TryAcquire(p) \/ GiveUp(p)
    \/ Resume(p) \/ SkipResume(p) \/ Promote(p) \/ StartupFails(p)
    \/ RunReturns(p) \/ RunStops(p) \/ MarkCleanShutdown(p) \/ MarkFails(p)
    \/ Close(p)

Environment(p) == Signal(p) \/ Crash(p)

LeadershipNext ==
    \/ \E p \in Procs : Process(p) \/ Environment(p)
    \/ DropLockSession
    \/ Tick

LeadershipSpec == LeadershipInit /\ [][LeadershipNext]_leadershipVars

\* The retry loop of a passive process, the Watch poll, the drain of a signalled
\* process and its deferred calls all keep running; PostgreSQL eventually
\* notices that the client of the lock session is gone.
Fairness ==
    /\ \A p \in Procs : /\ WF_leadershipVars(TryAcquire(p))
                        /\ WF_leadershipVars(GiveUp(p))
                        /\ WF_leadershipVars(WatchDetects(p))
                        /\ WF_leadershipVars(RunStops(p))
                        /\ WF_leadershipVars(MarkFails(p))
                        /\ WF_leadershipVars(Close(p))
    /\ WF_leadershipVars(DropLockSession /\ \E p \in Procs : lock = p /\ pc[p] = "exited")

LeadershipFairSpec == LeadershipSpec /\ Fairness

---------------------------------------------------------------------------
\* Two processes never serve one generation, whatever the lock connection does:
\* MarkCleanShutdown and ResumeControllerEpoch hand a generation over only after
\* its previous leader stopped serving it.
NoSharedGeneration ==
    \A p, q \in Serving : p # q => gen[p] # gen[q]

\* A generation that some leader left without a clean-shutdown record (crash,
\* listener failure, lost lock) is never served again: the single-use record of
\* ResumeControllerEpoch forces the next process to promote.
NoResumeAfterUncleanStop ==
    \A p \in Serving : gen[p] \notin unclean

\* While a clean-shutdown record is pending nobody serves the generation it
\* covers and no leader of that generation has ended any other way.
RecordMeansReleased ==
    cleanAt # {} => /\ \A p \in Serving : gen[p] # activeGen
                    /\ activeGen \notin unclean

\* PromoteControllerEpoch "is called only while the caller owns the leadership
\* advisory lock" (leadership.go): the step that makes a process leader by
\* promotion finds the lock still held by that process.
PromoteOnlyWhileLocked ==
    [][\A p \in Procs :
          pc[p] = "promoting" /\ pc'[p] = "leading" => lock = p]_leadershipVars

\* A leader whose lock connection was dropped stops serving: Watch polls it and
\* cancels the serving context.
DeposedLeaderStops ==
    \A p \in Procs :
        (pc[p] = "leading" /\ lock # p) ~> pc[p] \in {"closing", "exited"}

\* A waiting passive Controller takes the lock once every other process is gone,
\* also when the leader crashed and its session has to be reaped first.
PassiveTakesOver ==
    \A p \in Passive :
        (pc[p] = "waiting" /\ \A q \in Procs \ {p} : pc[q] = "exited")
            ~> pc[p] # "waiting"

===========================================================================
