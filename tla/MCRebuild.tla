---------------------------- MODULE MCRebuild -----------------------------
(* Model-checking instances of Rebuild.                                     *)
EXTENDS Rebuild

CONSTANT First   \* the node whose credential may be renewed before a promotion

\* One fault of any kind, anywhere in a behaviour: a lost answer, a node that
\* changes its mode, a successor that expires or an Agent out of reach.
OneFault == losses + modeChanges + expiries + outages <= 1

\* Before the promotion only First renews its credential, and so uses up its
\* versions; nodes differ in nothing else.  Every fair action can be taken.
OneFaultOneRenewal ==
    /\ OneFault
    /\ epoch = 1 => \A n \in Nodes \ {First} : lastVer[n] = 1
===========================================================================
