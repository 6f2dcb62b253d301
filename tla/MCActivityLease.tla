-------------------------- MODULE MCActivityLease --------------------------
(***************************************************************************)
(* Instances of ActivityLease for TLC: two compute nodes, n1 the first     *)
(* home.  Login operations are interchangeable.                            *)
(***************************************************************************)
EXTENDS ActivityLease, TLC

LoginSymmetry == Permutations(Logins)

NoneReport(statuses) == \A m \in msgs : m.status \notin statuses

\* Three families of behaviours: data faults, promotions and backups while pages are
\* open, where a fault leaves the clock the one tick in which leases and tickets run
\* out, and promotions and backups are kept apart; a restore or a backup against busy
\* and open pages; and a retirement against busy and idle ones.  What a retirement does
\* to an open fault is told in the README.
FaultsOrMoves ==
    \/ /\ work.kind # "restore" /\ retire.state = "none" /\ NoneReport({"busy", "idle"})
       /\ fault.seq = 0 \/ now <= 1
       /\ activeGen = 1 \/ work.seq = 0
    \/ /\ fault.seq = 0 /\ activeGen = 1
       /\ \/ retire.state = "none" /\ NoneReport({"idle"})
          \/ work.kind # "restore" /\ NoneReport({"page"})
============================================================================
