------------------------ MODULE MCActivityOwnership ------------------------
(* Model-checking instances of ActivityOwnership.                           *)
EXTENDS ActivityOwnership, TLC

\* A claim is a grant, or a takeover whose parent is the claim one step before
\* it (validateActivityOwnershipClaim).
RECURSIVE IsClaim(_)
IsClaim(c) ==
    /\ DOMAIN c = {"term", "seq", "owner", "op", "parent"}
    /\ c.term \in 1..MaxTerm /\ c.seq \in 0..MaxSeq /\ c.owner \in Nodes
    /\ IF c.seq = 0 THEN c.op = NoOp /\ c.parent = NoClaim
       ELSE c.op \in Ops /\ IsClaim(c.parent) /\ c.parent.term = c.term
            /\ c.parent.seq + 1 = c.seq

\* Claims, journals and requests have the form that loadRuntimeState and the
\* handlers accept.
TypeOK ==
    /\ \A n \in Nodes : own[n] = NoClaim \/ IsClaim(own[n])
    /\ \A n \in Nodes : \A e \in journal[n] : IsClaim(e.claim) /\ e.succeeded \in BOOLEAN
    /\ \A n \in Nodes : disk[n].own = NoClaim \/ IsClaim(disk[n].own)
    /\ \A n \in Nodes : handler[n].at \in {"idle", "asking", "journalling", "sending"}
    /\ \A n \in Nodes : offered[n] = NoClaim \/ IsClaim(offered[n])
    /\ \A w \in won : IsClaim(w.claim) /\ w.by \subseteq Nodes

Symmetry == Permutations(Nodes) \cup Permutations(Ops)

\* The nodes that serve a request.
Serving == {n \in Nodes : handler[n].at # "idle"}

\* The last request meets at most one other that is being served; three at a time
\* are among those before it.
LastMeetsOne == attempts = MaxAttempts => Cardinality(Serving) <= 2
===========================================================================
