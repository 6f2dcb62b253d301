------------------------------ MODULE Replica -----------------------------
(***************************************************************************)
(* What a snapshot workflow promises about one replica: the target holds   *)
(* a user's whole tree as of one moment, never a mixture; the database     *)
(* comes to name a new tree only when the target holds exactly that tree,  *)
(* and from then on the workflow no longer touches it.  A workflow that is *)
(* given up leaves the database as it was, although the target may already *)
(* hold the newer tree.                                                    *)
(***************************************************************************)
EXTENDS Naturals

CONSTANT Previous   \* the tree the replica held before the workflow

VARIABLES disk,     \* the tree under the replica's final path
          row,      \* the tree replica_copies names
          outcome   \* "open", or how the workflow ended

vars == <<disk, row, outcome>>

Init == disk = Previous /\ row = Previous /\ outcome = "open"

\* The target exchanges its directory for a whole tree.
Publish ==
    /\ outcome # "succeeded"
    /\ disk' \in Nat
    /\ UNCHANGED <<row, outcome>>

\* The Controller records what the target holds.
Record ==
    /\ outcome = "open"
    /\ outcome' = "succeeded"
    /\ row' = disk
    /\ UNCHANGED disk

Close ==
    /\ outcome = "open"
    /\ outcome' \in {"failed", "cancelled"}
    /\ UNCHANGED <<disk, row>>

Next == Publish \/ Record \/ Close

Spec == Init /\ [][Next]_vars
===========================================================================
