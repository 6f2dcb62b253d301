------------------------------ MODULE MCUpkeep ------------------------------
(* Model values for Upkeep: two compute and two storage nodes. *)
EXTENDS Upkeep
CONSTANTS h, s, a, b
MCCompute == {h, s}
MCStorage == {a, b}

\* A standby without an identity file is met by cleanups, snapshots and takeovers;
\* nodes leave service once it is gone or replaced.
DrainedWithIdentities ==
    disk[Standby].snap # 0 /\ disk[Standby].ident = 0 =>
        \A n \in Nodes : life[n] = "active"

\* Integrity checks, which are of storage nodes, do not run while the home is
\* retired, which moves the user between compute nodes.
ChecksApart ==
    life[First] # "active" => \A n \in Storage : check[n] = "none"
=============================================================================
