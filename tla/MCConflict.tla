----------------------------- MODULE MCConflict -----------------------------
(* Conflict for TLC. *)
EXTENDS Conflict, TLC

CONSTANTS a, b, s, v1, v2

\* Two versions; two versions, neither on the home; one source only.
Few == {[n \in Nodes |-> [p \in Paths |-> t[n]]] : t \in {
           a :> v1 @@ b :> v2 @@ s :> None,
           a :> None @@ b :> v1 @@ s :> v2,
           a :> None @@ b :> v1 @@ s :> None}}

NoBound == -1

\* What goes wrong goes wrong under the choice that asks most of the merge.  The
\* workflow and the Agents look at nothing of a choice but its base before the
\* merge itself.
MishapsKeepAll ==
    mishaps > 0 /\ choice # NoChoice =>
        /\ choice.default = "preserve_all_originals"
        /\ \A q \in Paths : choice.decided[q] = None
=============================================================================
