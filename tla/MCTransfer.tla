---------------------------- MODULE MCTransfer ----------------------------
(* Model-checking instances of Transfer.  The workers are interchangeable.  *)
EXTENDS Transfer, TLC

Symmetry == Permutations(Workers)

\* After a fault and a promotion, a third capability is issued only for a tree
\* nobody has written to since the workflow was scheduled.
ThirdCapabilityAlone == gen > 1 /\ faults > 0 /\ data > 0 => cap.id <= 2
===========================================================================
