------------------------- MODULE ActivityOwnership ------------------------
(***************************************************************************)
(* Who may write a user's data while the Controller is lost                *)
(* (agent/activity_ownership.go).                                          *)
(*                                                                         *)
(* Every Agent keeps one claim per user: the last grant of the Controller  *)
(* or a takeover that a user confirmed.  A login on an independent node    *)
(* asks all peers and follows the largest claim if a majority has it.  A   *)
(* takeover adds a successor to that claim by a compare-and-set on a       *)
(* majority, which a journal lets the node retry.                          *)
(*                                                                         *)
(* One user is modelled; every node lists all others as its peers.  A term *)
(* stands for the pair of Controller generation and activity epoch, which  *)
(* are compared in that order and give a grant its owner.                  *)
(***************************************************************************)
EXTENDS Naturals, FiniteSets

CONSTANTS Nodes, Ops, NoOp,
          MaxTerm, MaxSeq,
          MaxAttempts,       \* requests of the adapter, over all nodes
          MaxCrashes,
          MaxFailedSaves,    \* writes of runtime-state.json that fail
          JournalMayFill     \* other users may use up maxOwnershipTakeovers

ASSUME OwnershipAssumption ==
    /\ MaxTerm \in Nat /\ MaxSeq \in Nat /\ MaxAttempts \in Nat
    /\ MaxCrashes \in Nat /\ MaxFailedSaves \in Nat
    /\ JournalMayFill \in BOOLEAN /\ NoOp \notin Ops /\ IsFiniteSet(Nodes)

VARIABLES own,        \* ActivityOwnership[handle] in each Agent's memory
          journal,    \* OwnershipTakeovers in memory
          disk,       \* runtime-state.json: both of them as last saved
          grants,     \* the grants the Controller has made
          handler,    \* the resolve or takeover request each Agent serves
          offered,    \* the claim a login page shows for confirmation
          won,        \* journal entries of the committed takeovers
          attempts, crashes, failedSaves

vars == <<own, journal, disk, grants, handler, offered, won,
          attempts, crashes, failedSaves>>

\* The map has no entry; terms begin with 1.
NoClaim == [term |-> 0]

\* A claim's ClaimID is a digest of all it says, so equal claims have equal IDs.
\* A grant has sequence 0, no operation and no parent.
Grant(t, n) == [term |-> t, seq |-> 0, owner |-> n, op |-> NoOp, parent |-> NoClaim]

Takeover(n, o, p) == [term |-> p.term, seq |-> p.seq + 1, owner |-> n, op |-> o, parent |-> p]

\* compareActivityOwnership: different claims of one rank are in conflict and
\* neither is larger.
Larger(c, d) == c.term > d.term \/ (c.term = d.term /\ c.seq > d.seq)

\* Mutant: half of the nodes are enough.
HalfRequired == Cardinality(Nodes) \div 2

Required == Cardinality(Nodes) \div 2 + 1

Init ==
    /\ own = [n \in Nodes |-> NoClaim]
    /\ journal = [n \in Nodes |-> {}]
    /\ disk = [n \in Nodes |-> [own |-> NoClaim, journal |-> {}]]
    /\ grants = {}
    /\ handler = [n \in Nodes |-> [at |-> "idle"]]
    /\ offered = [n \in Nodes |-> NoClaim]
    /\ won = {}
    /\ attempts = 0 /\ crashes = 0 /\ failedSaves = 0

---------------------------------------------------------------------------
(* The stored claim.                                                       *)

\* applyActivityOwnershipClaim stores claim c ...
Replaces(n, c, requireParent) ==
    /\ own[n] # c
    /\ requireParent => own[n] = c.parent
    /\ own[n] # NoClaim => Larger(c, own[n])

\* ... and reports it accepted also when it was stored already.
Accepts(n, c, requireParent) == own[n] = c \/ Replaces(n, c, requireParent)

\* Mutant: the claim is missing from what is saved.
SaveJournalOnly(n, claim, entries, saved) ==
    /\ saved => disk' = [disk EXCEPT ![n].journal = entries] /\ UNCHANGED failedSaves
    /\ ~saved => failedSaves < MaxFailedSaves /\ failedSaves' = failedSaves + 1 /\ UNCHANGED disk

\* saveRuntimeStateLocked writes all of the state, or fails and leaves the file.
Save(n, claim, entries, saved) ==
    /\ saved => disk' = [disk EXCEPT ![n] = [own |-> claim, journal |-> entries]]
                /\ UNCHANGED failedSaves
    /\ ~saved => failedSaves < MaxFailedSaves /\ failedSaves' = failedSaves + 1 /\ UNCHANGED disk

\* The memory is changed before the save, whatever becomes of it.
Apply(n, c, requireParent, saved) ==
    IF Replaces(n, c, requireParent)
    THEN own' = [own EXCEPT ![n] = c] /\ Save(n, c, journal[n], saved)
    ELSE saved /\ UNCHANGED <<own, disk, failedSaves>>

---------------------------------------------------------------------------
(* While the Controller is there.                                          *)

\* recordControllerOwnershipGrant on the node the user has logged in to.
RecordControllerOwnershipGrant(n) ==
    \E saved \in BOOLEAN, t \in 1..MaxTerm :
        /\ \A g \in grants : g.term < t
        /\ t = Cardinality(grants) + 1
        /\ Apply(n, Grant(t, n), FALSE, saved)
        /\ grants' = grants \cup {Grant(t, n)}
        /\ UNCHANGED <<journal, handler, offered, won, attempts, crashes>>

\* handlePeerOwnershipObserve for a grant: the broadcast reaches a peer at any
\* time or never.
ObserveGrant(n) ==
    \E saved \in BOOLEAN, g \in grants :
        /\ Replaces(n, g, FALSE)
        /\ Apply(n, g, FALSE, saved)
        /\ UNCHANGED <<journal, grants, handler, offered, won, attempts, crashes>>

---------------------------------------------------------------------------
(* Asking the peers: queryOwnershipQuorum.                                 *)

Set(n, h) == handler' = [handler EXCEPT ![n] = h]
Query(n, o, p) == [at |-> "asking", op |-> o, parent |-> p,
                   seen |-> [m \in {n} |-> own[n]], up |-> {}, asked |-> {n},
                   floor |-> {w.claim : w \in won}]

\* A journal entry; by, those who have accepted the claim, is not in the code.
Entry(c, by, succeeded) == [claim |-> c, by |-> by, succeeded |-> succeeded]

\* handleAdapterOwnershipResolve.
BeginResolve(n) ==
    /\ handler[n].at = "idle" /\ attempts < MaxAttempts /\ attempts' = attempts + 1
    /\ Set(n, Query(n, NoOp, NoClaim))
    /\ UNCHANGED <<own, journal, disk, grants, offered, won, crashes, failedSaves>>

\* handleAdapterOwnershipTakeover, with the claim the user was shown; an
\* operation found in the journal goes on where it was.
BeginTakeover(n, o) ==
    /\ handler[n].at = "idle" /\ attempts < MaxAttempts /\ attempts' = attempts + 1
    /\ offered[n] # NoClaim
    /\ \A m \in Nodes \ {n} : \A e \in journal[m] \cup disk[m].journal : e.claim.op # o
    /\ LET known == {e \in journal[n] : e.claim.op = o} IN
       IF known = {} THEN Set(n, Query(n, o, offered[n])) /\ UNCHANGED won
       ELSE \E e \in known :
               /\ e.claim.parent = offered[n]
               /\ IF e.succeeded THEN won' = won \cup {e} /\ UNCHANGED handler
                  ELSE /\ Set(n, [at |-> "sending", claim |-> e.claim, asked |-> {n}, acks |-> {n}])
                       /\ UNCHANGED won
    /\ UNCHANGED <<own, journal, disk, grants, offered, crashes, failedSaves>>

\* One peer answers, with its claim and whether its adapter runs, or does not.
\* Only an owner's adapter is ever asked about.
Owners == {own[m].owner : m \in {k \in Nodes : own[k] # NoClaim}}

AskPeer(n, m) ==
    /\ handler[n].at = "asking" /\ m \notin handler[n].asked
    /\ LET h == handler[n]
           heard == [k \in DOMAIN h.seen \cup {m} |-> IF k = m THEN own[m] ELSE h.seen[k]]
       IN \/ Set(n, [h EXCEPT !.asked = @ \cup {m}])
          \/ \E up \in SUBSET (Owners \cap {m}) :
                Set(n, [h EXCEPT !.asked = @ \cup {m}, !.seen = heard, !.up = @ \cup up])
    /\ UNCHANGED <<own, journal, disk, grants, offered, won, attempts, crashes, failedSaves>>

Claims(h) == {h.seen[m] : m \in DOMAIN h.seen} \ {NoClaim}
Maximal(h) == {c \in Claims(h) : \A d \in Claims(h) : ~Larger(d, c)}
Matching(n, h, c) == {n} \cup {m \in DOMAIN h.seen : h.seen[m] = c}
DecisionFor(n, h, c) ==
    IF c.owner = n THEN "automatic"
    ELSE IF c.owner \in h.up THEN "owner_available" ELSE "takeover_required"

\* The query has found c on a majority.  A save that fails is ignored here.
Resolved(n, c) ==
    LET h == handler[n] IN
    /\ h.at = "asking" /\ h.asked = Nodes
    /\ Maximal(h) = {c} /\ Accepts(n, c, FALSE)
    /\ Cardinality(Matching(n, h, c)) >= Required

Resolve(n) ==
    handler[n].at = "asking" /\ \E saved \in BOOLEAN, c \in Claims(handler[n]) :
        LET h == handler[n] IN
        /\ Resolved(n, c) /\ h.op = NoOp
        /\ Apply(n, c, FALSE, saved)
        /\ Set(n, [at |-> "idle"])
        /\ offered' = [offered EXCEPT ![n] =
                          IF DecisionFor(n, h, c) = "takeover_required" THEN c ELSE NoClaim]
        /\ UNCHANGED <<journal, grants, won, attempts, crashes>>

\* No majority, a conflict, or an older claim than the node's own: nothing is
\* decided, and what a single largest claim says is remembered all the same.
Unresolved(n) ==
    \E saved \in BOOLEAN :
        LET h == handler[n] IN
        /\ h.at = "asking" /\ h.asked = Nodes
        /\ ~\E c \in Claims(h) : Resolved(n, c)
        /\ IF Cardinality(Maximal(h)) = 1
           THEN \E c \in Maximal(h) : Apply(n, c, FALSE, saved)
           ELSE saved /\ UNCHANGED <<own, disk, failedSaves>>
        /\ Set(n, [at |-> "idle"])
        /\ UNCHANGED <<journal, grants, offered, won, attempts, crashes>>

\* The time is up before all peers have answered: nothing is remembered.
QueryTimesOut(n) ==
    /\ handler[n].at = "asking" /\ handler[n].asked # Nodes
    /\ Set(n, [at |-> "idle"])
    /\ UNCHANGED <<own, journal, disk, grants, offered, won, attempts, crashes, failedSaves>>

---------------------------------------------------------------------------
(* A takeover: performUserConfirmedTakeover.                               *)

\* The same question, and the local compare-and-set.
TakeParent(n) ==
    \E saved \in BOOLEAN :
        LET h == handler[n]
            c == Takeover(n, h.op, h.parent)
        IN
        /\ h.at = "asking" /\ h.op # NoOp
        /\ Resolved(n, h.parent) /\ DecisionFor(n, h, h.parent) = "takeover_required"
        /\ h.parent.seq < MaxSeq
        /\ own' = [own EXCEPT ![n] = c]
        /\ Save(n, c, journal[n], saved)
        /\ Set(n, IF saved THEN [at |-> "journalling", claim |-> c] ELSE [at |-> "idle"])
        /\ UNCHANGED <<journal, grants, offered, won, attempts, crashes>>

\* Any other answer refuses the takeover.
RefuseTakeover(n) ==
    handler[n].at = "asking" /\ \E saved \in BOOLEAN, c \in Claims(handler[n]) :
        LET h == handler[n] IN
        /\ h.op # NoOp
        /\ Resolved(n, c) /\ ~(c = h.parent /\ DecisionFor(n, h, c) = "takeover_required")
        /\ Apply(n, c, FALSE, saved)
        /\ Set(n, [at |-> "idle"])
        /\ UNCHANGED <<journal, grants, offered, won, attempts, crashes>>

Journal(n) ==
    \E saved \in BOOLEAN :
        LET c == handler[n].claim
            entries == journal[n] \cup {Entry(c, {n}, FALSE)}
        IN
        /\ handler[n].at = "journalling"
        /\ journal' = [journal EXCEPT ![n] = entries]
        /\ Save(n, own[n], entries, saved)
        /\ Set(n, IF saved THEN [at |-> "sending", claim |-> c, asked |-> {n}, acks |-> {n}]
                  ELSE [at |-> "idle"])
        /\ UNCHANGED <<own, grants, offered, won, attempts, crashes>>

\* The journal, which all users share, has no room: the claim stays.
JournalFull(n) ==
    /\ JournalMayFill /\ handler[n].at = "journalling"
    /\ Set(n, [at |-> "idle"])
    /\ UNCHANGED <<own, journal, disk, grants, offered, won, attempts, crashes, failedSaves>>

\* handlePeerOwnershipObserve at peer m, whose answer may be lost; a failed
\* save answers with an error.
ObserveTakeover(n, m) ==
    \E saved, answered \in BOOLEAN :
        LET h == handler[n] IN
        /\ h.at = "sending" /\ m \notin h.asked
        /\ IF Accepts(m, h.claim, TRUE)
           THEN /\ own' = [own EXCEPT ![m] = h.claim]
                /\ IF own[m] # h.claim THEN Save(m, h.claim, journal[m], saved)
                   ELSE saved /\ UNCHANGED <<disk, failedSaves>>
                /\ Set(n, [h EXCEPT !.asked = @ \cup {m},
                                    !.acks = IF saved /\ answered THEN @ \cup {m} ELSE @])
           ELSE /\ saved /\ answered
                /\ Set(n, [h EXCEPT !.asked = @ \cup {m}])
                /\ UNCHANGED <<own, disk, failedSaves>>
        /\ UNCHANGED <<journal, grants, offered, won, attempts, crashes>>

SkipPeer(n, m) ==
    /\ handler[n].at = "sending" /\ m \notin handler[n].asked
    /\ Set(n, [handler[n] EXCEPT !.asked = @ \cup {m}])
    /\ UNCHANGED <<own, journal, disk, grants, offered, won, attempts, crashes, failedSaves>>

Commit(n) ==
    \E saved \in BOOLEAN :
        LET h == handler[n]
            entry == Entry(h.claim, h.acks, TRUE)
            entries == {e \in journal[n] : e.claim # h.claim} \cup {entry}
        IN
        /\ h.at = "sending" /\ h.asked = Nodes /\ Cardinality(h.acks) >= Required
        /\ journal' = [journal EXCEPT ![n] = entries]
        /\ Save(n, own[n], entries, saved)
        /\ won' = IF saved THEN won \cup {entry} ELSE won
        /\ Set(n, [at |-> "idle"])
        /\ UNCHANGED <<own, grants, offered, attempts, crashes>>

TakeoverFails(n) ==
    LET h == handler[n] IN
    /\ h.at = "sending" /\ h.asked = Nodes /\ Cardinality(h.acks) < Required
    /\ Set(n, [at |-> "idle"])
    /\ UNCHANGED <<own, journal, disk, grants, offered, won, attempts, crashes, failedSaves>>

\* The Agent restarts from its file.  An idle one that has saved all it knows
\* would not notice.
Crash(n) ==
    /\ handler[n].at # "idle" \/ disk[n] # [own |-> own[n], journal |-> journal[n]]
    /\ crashes < MaxCrashes /\ crashes' = crashes + 1
    /\ own' = [own EXCEPT ![n] = disk[n].own]
    /\ journal' = [journal EXCEPT ![n] = disk[n].journal]
    /\ Set(n, [at |-> "idle"])
    /\ UNCHANGED <<disk, grants, offered, won, attempts, failedSaves>>

Next ==
    \E n \in Nodes :
        \/ RecordControllerOwnershipGrant(n) \/ ObserveGrant(n)
        \/ BeginResolve(n) \/ \E o \in Ops : BeginTakeover(n, o)
        \/ \E m \in Nodes : AskPeer(n, m) \/ ObserveTakeover(n, m) \/ SkipPeer(n, m)
        \/ Resolve(n) \/ Unresolved(n) \/ QueryTimesOut(n) \/ TakeParent(n) \/ RefuseTakeover(n)
        \/ Journal(n) \/ JournalFull(n) \/ Commit(n) \/ TakeoverFails(n) \/ Crash(n)

Spec == Init /\ [][Next]_vars

---------------------------------------------------------------------------
(* Properties.                                                             *)

\* Of the takeovers that continue one grant, at most one is committed at each
\* step of the chain: two users' pages can never both be told that they have
\* taken over from the same owner (performUserConfirmedTakeover).
OneWinnerPerRank ==
    \A v, w \in won : v.claim.term = w.claim.term /\ v.claim.seq = w.claim.seq
                      => v.claim = w.claim

\* A login that starts after a takeover was committed is never decided by an
\* older claim: the majorities meet (queryOwnershipQuorum).
DecisionsSeeWinners ==
    \A n \in Nodes : handler[n].at = "asking" =>
        \A c \in Claims(handler[n]), w \in handler[n].floor : Resolved(n, c) => ~Larger(w, c)

\* A committed takeover survives restarts: a majority has it, or something
\* larger, on disk (applyActivityOwnershipClaim, handlePeerOwnershipObserve).
WinnersAreDurable ==
    \A w \in won :
        Cardinality({n \in Nodes :
            /\ disk[n].own # NoClaim
            /\ disk[n].own = w.claim \/ Larger(disk[n].own, w.claim)}) >= Required

\* What an Agent has acknowledged it never gives up for something older, not
\* even by a restart (applyActivityOwnershipClaim, saveRuntimeStateLocked).
ClaimsOnlyGrow ==
    [][\A n \in Nodes : own[n] # NoClaim =>
          own'[n] = own[n] \/ (own'[n] # NoClaim /\ Larger(own'[n], own[n]))]_own

\* A takeover claim that its node has stored can be retried: it is in the
\* journal or about to be written there (performUserConfirmedTakeover).
TakeoverCanBeRetried ==
    \A n \in Nodes :
        own[n] # NoClaim /\ own[n].owner = n /\ own[n].op # NoOp =>
            \/ \E e \in journal[n] : e.claim = own[n]
            \/ handler[n].at = "journalling" /\ handler[n].claim = own[n]
===========================================================================
