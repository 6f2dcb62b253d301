-------------------------- MODULE MCCommandQueue --------------------------
(* Instances of CommandQueue for TLC: operation ids are model values, and  *)
(* every bound is a constant of the module.                                *)
EXTENDS CommandQueue, FiniteSets

Enqueued == {op \in Ops : rows[op] # NoRow} \cup {p.op : p \in prep}

\* No command fails at the Agent, and no result request is late.
Smooth == net = {} /\ \A t \in tasks : t.result \in {"none", "done"}

\* Three families of behaviours: one retryable command through rotations and a
\* promotion or a crash, or both of them with no late result request; two commands
\* that share the slot and the result cache; and either of them while the node
\* leaves managed mode.  Every fair action can be taken within a family.
AloneOrShared ==
    \/ /\ Enqueued \cap PageOps = {} /\ modeChanges = 0
       /\ epoch = 1 \/ crashes = 0 \/ net = {}
    \/ /\ epoch = 1 /\ cred.ver = 1 /\ crashes = 0
       /\ \/ modeChanges = 0 /\ Smooth
          \/ Cardinality(Enqueued) <= 1
===========================================================================
