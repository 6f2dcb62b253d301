---------------------- MODULE ActivityOwnershipProofs ----------------------
(***************************************************************************)
(* While every save succeeds, at most one takeover of a rank commits and   *)
(* it stays on a majority of disks, and a takeover that reads a majority   *)
(* decides above every one that committed before it asked, for any number  *)
(* of nodes, operations and restarts.                                      *)
(*                                                                         *)
(* The argument does not follow messages but asks who backs a claim: the   *)
(* owner that journals it and every node whose acceptance is counted.  A   *)
(* node that backs a claim keeps it or goes on to a larger one, and so     *)
(* never backs two claims of one rank; two majorities share a node.        *)
(***************************************************************************)
EXTENDS ActivityOwnership, FiniteSetTheorems, TLAPS

Ranked(c) == c.term \in Nat \ {0} /\ c.seq \in Nat
SameRank(c, d) == c.term = d.term /\ c.seq = d.seq
Covers(c, d) == Ranked(c) /\ Ranked(d) /\ (c = d \/ Larger(c, d))
Stored(c) == c = NoClaim \/ Ranked(c)
\* The claims a query has heard.
Heard(h) == "seen" \in DOMAIN h /\ \A m \in DOMAIN h.seen : Stored(h.seen[m])
\* The acceptances a takeover has counted, its own among them.
Sent(n, h) == "acks" \in DOMAIN h /\ n \in h.acks /\ h.acks \subseteq Nodes

Grows(c, d) == d = c \/ (Ranked(d) /\ (c = NoClaim \/ Larger(d, c)))

\* The nodes whose word counts for claim c.
Backs(m, c) ==
    \/ handler[m].at = "journalling" /\ c = handler[m].claim
    \/ \E n \in Nodes : handler[n].at = "sending" /\ m \in handler[n].acks /\ c = handler[n].claim
    \/ \E n \in Nodes : \E e \in journal[n] : m \in e.by /\ c = e.claim
    \/ \E e \in won : m \in e.by /\ c = e.claim

Shape ==
    /\ DOMAIN own = Nodes /\ DOMAIN handler = Nodes
    /\ DOMAIN journal = Nodes /\ DOMAIN disk = Nodes
    /\ failedSaves \in Nat
    /\ \A n \in Nodes : Stored(own[n])
    /\ \A g \in grants : Ranked(g)
    /\ \A n \in Nodes : handler[n].at = "asking" => Heard(handler[n])
    /\ \A n \in Nodes : handler[n].at = "sending" => Sent(n, handler[n])

Entries ==
    /\ \A n \in Nodes : \A e \in journal[n] :
          /\ n \in e.by /\ e.by \subseteq Nodes
          /\ e.succeeded => Cardinality(e.by) >= Required
    /\ \A e \in won : e.by \subseteq Nodes /\ Cardinality(e.by) >= Required

Saved == \A n \in Nodes : disk[n] = [own |-> own[n], journal |-> journal[n]]

Backing == \A m \in Nodes : \A c : Backs(m, c) => Covers(own[m], c)

OneBacking == \A m \in Nodes : \A c, d : Backs(m, c) /\ Backs(m, d) /\ SameRank(c, d) => c = d

\* The inductive invariant.
OwnershipInv == Shape /\ Entries /\ Saved /\ Backing /\ OneBacking

---------------------------------------------------------------------------
(* The order of claims.                                                    *)

\* compareActivityOwnership orders ranks strictly, and no claim is larger than
\* one of its own rank.
LEMMA RankOrder ==
    ASSUME NEW c, NEW d, NEW e, Ranked(c), Ranked(d), Ranked(e)
    PROVE  /\ Larger(c, d) /\ Larger(d, e) => Larger(c, e)
           /\ Larger(c, d) => ~SameRank(c, d)
           /\ Larger(c, d) => ~Larger(d, c)
           /\ SameRank(d, e) => (Larger(c, d) <=> Larger(c, e))
           /\ c # NoClaim
BY DEF Ranked, Larger, SameRank, NoClaim

\* What grows still covers.
LEMMA CoversGrows ==
    ASSUME NEW b, NEW c, NEW d, Covers(b, d), Grows(b, c)
    PROVE  Covers(c, d)
<1>1. CASE c = b
    BY <1>1, Zenon DEF Covers
<1>2. CASE c # b
    <2>1. Ranked(b) /\ Ranked(c) /\ Ranked(d) BY <1>2, Zenon DEF Covers, Grows
    <2>2. b # NoClaim BY <2>1, RankOrder, Zenon
    <2>3. Larger(c, b) BY <1>2, <2>2, Zenon DEF Grows
    <2>4. Larger(c, d) BY <2>1, <2>3, RankOrder, Zenon DEF Covers
    <2> QED BY <2>1, <2>4, Zenon DEF Covers
<1> QED BY <1>1, <1>2, Zenon

\* applyActivityOwnershipClaim only ever lets the stored claim grow.
LEMMA ReplacesGrows ==
    ASSUME NEW n \in Nodes, NEW c, NEW p \in BOOLEAN, Ranked(c), Accepts(n, c, p)
    PROVE  Grows(own[n], c)
BY Zenon DEF Accepts, Replaces, Grows

\* A step keeps the backing if stored claims grow and every node that begins to
\* back a claim has just stored it.
LEMMA BackingStep ==
    ASSUME OwnershipInv,
           \A m \in Nodes : Grows(own[m], own'[m]),
           \A m \in Nodes : \A c : Backs(m, c)' =>
               Backs(m, c) \/ (Ranked(c) /\ own'[m] = c)
    PROVE  Backing' /\ OneBacking'
<1>1. ASSUME NEW m \in Nodes, NEW c, Backs(m, c)'
      PROVE  Covers(own'[m], c)
    <2>1. CASE Backs(m, c)
        <3>1. Covers(own[m], c) BY <2>1, Zenon DEF OwnershipInv, Backing
        <3> QED BY <3>1, CoversGrows, Zenon
    <2>2. CASE Ranked(c) /\ own'[m] = c
        BY <2>2, Zenon DEF Covers
    <2> QED BY <1>1, <2>1, <2>2, Zenon
<1>2. ASSUME NEW m \in Nodes, NEW c, NEW d, Backs(m, c), Ranked(d), own'[m] = d, SameRank(c, d)
      PROVE  c = d
    <2>1. Covers(own[m], c) BY <1>2, Zenon DEF OwnershipInv, Backing
    <2>2. Covers(d, c) BY <1>2, <2>1, CoversGrows, Zenon
    <2>3. ~SameRank(c, d) \/ ~Larger(d, c) BY <2>2, RankOrder, Zenon DEF Covers, SameRank
    <2> QED BY <1>2, <2>2, <2>3, Zenon DEF Covers
<1>3. ASSUME NEW m \in Nodes, NEW c, NEW d, Backs(m, c)', Backs(m, d)', SameRank(c, d)
      PROVE  c = d
    <2>1. CASE Backs(m, c) /\ Backs(m, d)
        BY <1>3, <2>1, Zenon DEF OwnershipInv, OneBacking
    <2>2. CASE Backs(m, c) /\ Ranked(d) /\ own'[m] = d
        BY <1>2, <1>3, <2>2, Zenon
    <2>3. CASE Backs(m, d) /\ Ranked(c) /\ own'[m] = c
        BY <1>2, <1>3, <2>3, Zenon DEF SameRank
    <2>4. CASE own'[m] = c /\ own'[m] = d
        BY <2>4, Zenon
    <2> QED BY <1>3, <2>1, <2>2, <2>3, <2>4, Zenon
<1>4. Backing' BY <1>1, Zenon DEF Backing
<1>5. OneBacking' BY <1>3, Zenon DEF OneBacking, SameRank
<1> QED BY <1>4, <1>5, Zenon

---------------------------------------------------------------------------
(* The actions.                                                            *)

\* What each action is shown to do.
Keeps ==
    /\ Shape' /\ Entries' /\ Saved'
    /\ \A m \in Nodes : Grows(own[m], own'[m])
    /\ \A m \in Nodes : \A c : Backs(m, c)' => Backs(m, c) \/ (Ranked(c) /\ own'[m] = c)

\* saveRuntimeStateLocked writes the file when no save may fail.
LEMMA SaveSucceeds ==
    ASSUME MaxFailedSaves = 0, failedSaves \in Nat,
           NEW n, NEW c, NEW entries, NEW saved \in BOOLEAN, Save(n, c, entries, saved)
    PROVE  /\ saved
           /\ disk' = [disk EXCEPT ![n] = [own |-> c, journal |-> entries]]
           /\ failedSaves' = failedSaves
BY DEF Save

\* The invariant types the counter of failed saves.
LEMMA SavesCounted == ASSUME OwnershipInv PROVE failedSaves \in Nat
BY Zenon DEF OwnershipInv, Shape

\* applyActivityOwnershipClaim, with the stores it may change.
LEMMA ApplyKeeps ==
    ASSUME MaxFailedSaves = 0, OwnershipInv, NEW n \in Nodes, NEW c, Ranked(c),
           NEW saved \in BOOLEAN, Apply(n, c, FALSE, saved), journal' = journal
    PROVE  /\ DOMAIN own' = Nodes /\ DOMAIN disk' = Nodes /\ failedSaves' \in Nat
           /\ \A m \in Nodes : Stored(own'[m]) /\ Grows(own[m], own'[m])
           /\ Saved'
<1>1. CASE Replaces(n, c, FALSE)
    <2>1. own' = [own EXCEPT ![n] = c] /\ Save(n, c, journal[n], saved)
        BY <1>1, Zenon DEF Apply
    <2>2. disk' = [disk EXCEPT ![n] = [own |-> c, journal |-> journal[n]]] /\ failedSaves' = failedSaves
        BY <2>1, SaveSucceeds, SavesCounted
    <2>3. Grows(own[n], c) BY <1>1, ReplacesGrows, Zenon DEF Accepts
    <2>4. \A m \in Nodes : Stored(own'[m]) /\ Grows(own[m], own'[m])
        BY <2>1, <2>3, Zenon DEF OwnershipInv, Shape, Stored, Grows
    <2>5. Saved' BY <2>1, <2>2, Zenon DEF OwnershipInv, Shape, Saved
    <2> QED BY <2>1, <2>2, <2>4, <2>5, Zenon DEF OwnershipInv, Shape
<1>2. CASE ~Replaces(n, c, FALSE)
    BY <1>2, Zenon DEF Apply, OwnershipInv, Shape, Saved, Stored, Grows
<1> QED BY <1>1, <1>2, Zenon

\* Handlers that end, and those that begin to ask, back nothing new.
LEMMA StopsBacking ==
    ASSUME OwnershipInv, NEW n \in Nodes, NEW h, h.at \in {"idle", "asking"}, Set(n, h),
           UNCHANGED <<journal, won>>
    PROVE  \A m \in Nodes : \A c : Backs(m, c)' => Backs(m, c)
<1>1. \A m \in Nodes : handler'[m] = IF m = n THEN h ELSE handler[m]
    BY Zenon DEF OwnershipInv, Shape, Set
<1>2. h.at # "journalling" /\ h.at # "sending" BY Zenon
<1> QED BY <1>1, <1>2, Zenon DEF Backs

\* A step that ends a handler and stores at most one ranked claim.
LEMMA StoreKeeps ==
    ASSUME MaxFailedSaves = 0, OwnershipInv, NEW n \in Nodes, NEW c, Ranked(c),
           NEW saved \in BOOLEAN, Apply(n, c, FALSE, saved),
           Set(n, [at |-> "idle"]) \/ handler' = handler,
           UNCHANGED <<journal, won>>, \A g \in grants' : Ranked(g)
    PROVE  Keeps
<1>1. /\ DOMAIN own' = Nodes /\ DOMAIN disk' = Nodes /\ failedSaves' \in Nat
      /\ \A m \in Nodes : Stored(own'[m]) /\ Grows(own[m], own'[m])
      /\ Saved'
    BY ApplyKeeps, Zenon
<1>2. Entries' BY Zenon DEF OwnershipInv, Entries, Required
<1>3. CASE handler' = handler
    <2>1. Shape' BY <1>1, <1>3, Zenon DEF OwnershipInv, Shape
    <2>2. \A m \in Nodes : \A d : Backs(m, d)' => Backs(m, d) BY <1>3, Zenon DEF Backs
    <2> QED BY <1>1, <1>2, <2>1, <2>2, Zenon DEF Keeps
<1>4. CASE Set(n, [at |-> "idle"])
    <2>1. DOMAIN handler' = Nodes
          /\ \A m \in Nodes : handler'[m] = IF m = n THEN [at |-> "idle"] ELSE handler[m]
        BY <1>4, Zenon DEF OwnershipInv, Shape, Set
    <2>2. Shape' BY <1>1, <2>1 DEF OwnershipInv, Shape
    <2>3. \A m \in Nodes : \A d : Backs(m, d)' => Backs(m, d)
        BY <1>4, StopsBacking
    <2> QED BY <1>1, <1>2, <2>2, <2>3 DEF Keeps
<1> QED BY <1>3, <1>4, Zenon

\* A step that stores nothing.
LEMMA HandlerKeeps ==
    ASSUME OwnershipInv, UNCHANGED <<own, disk, grants, journal, failedSaves>>,
           DOMAIN handler' = Nodes, Entries',
           \A m \in Nodes : handler'[m].at = "asking" => Heard(handler'[m]),
           \A m \in Nodes : handler'[m].at = "sending" => Sent(m, handler'[m]),
           \A m \in Nodes : \A c : Backs(m, c)' => Backs(m, c)
    PROVE  Keeps
<1>1. Shape' BY Zenon DEF OwnershipInv, Shape
<1>2. Saved' BY Zenon DEF OwnershipInv, Saved
<1>3. \A m \in Nodes : Grows(own[m], own'[m]) BY Zenon DEF Grows
<1> QED BY <1>1, <1>2, <1>3, Zenon DEF Keeps

\* What a step has to show of the stores when it changes the handler of n only.
LEMMA ShapeStep ==
    ASSUME OwnershipInv, NEW n \in Nodes, NEW g,
           DOMAIN own' = Nodes, DOMAIN journal' = Nodes, DOMAIN disk' = Nodes,
           failedSaves' \in Nat, \A m \in Nodes : Stored(own'[m]), grants' = grants,
           DOMAIN handler' = Nodes,
           \A m \in Nodes : handler'[m] = IF m = n THEN g ELSE handler[m],
           g.at = "asking" => Heard(g), g.at = "sending" => Sent(n, g)
    PROVE  Shape'
<1>1. \A m \in Nodes : handler'[m].at = "asking" => Heard(handler'[m])
    BY Zenon DEF OwnershipInv, Shape
<1>2. \A m \in Nodes : handler'[m].at = "sending" => Sent(m, handler'[m])
    BY Zenon DEF OwnershipInv, Shape
<1>3. \A k \in grants' : Ranked(k) BY Zenon DEF OwnershipInv, Shape
<1> QED BY <1>1, <1>2, <1>3, Zenon DEF Shape

\* A node that saves what it has just put into its memory has saved everything.
LEMMA SavedStep ==
    ASSUME OwnershipInv, NEW n \in Nodes, NEW c, NEW entries,
           DOMAIN own' = Nodes, DOMAIN journal' = Nodes,
           \A m \in Nodes : own'[m] = IF m = n THEN c ELSE own[m],
           \A m \in Nodes : journal'[m] = IF m = n THEN entries ELSE journal[m],
           disk' = [disk EXCEPT ![n] = [own |-> c, journal |-> entries]]
    PROVE  Saved' /\ DOMAIN disk' = Nodes
<1>1. DOMAIN disk' = Nodes
      /\ \A m \in Nodes : disk'[m] = IF m = n THEN [own |-> c, journal |-> entries] ELSE disk[m]
    BY Zenon DEF OwnershipInv, Shape
<1>2. \A m \in Nodes : disk[m] = [own |-> own[m], journal |-> journal[m]]
    BY Zenon DEF OwnershipInv, Saved
<1> QED BY <1>1, <1>2, Zenon DEF Saved

\* Requests that begin, are answered, or give up: all but the retry of a
\* journalled operation store nothing and back nothing new.
LEMMA AskingKeeps ==
    ASSUME OwnershipInv, NEW n \in Nodes,
           \/ BeginResolve(n) \/ QueryTimesOut(n) \/ JournalFull(n) \/ TakeoverFails(n)
           \/ \E m \in Nodes : AskPeer(n, m)
    PROVE  Keeps
<1>1. PICK h : /\ h.at \in {"idle", "asking"} /\ Set(n, h)
               /\ h.at = "asking" => Heard(h)
               /\ UNCHANGED <<own, disk, grants, journal, failedSaves, won>>
    <2>1. CASE BeginResolve(n)
        BY <2>1, Zenon DEF BeginResolve, Query, OwnershipInv, Shape, Heard
    <2>2. CASE QueryTimesOut(n) \/ JournalFull(n) \/ TakeoverFails(n)
        BY <2>2, Zenon DEF QueryTimesOut, JournalFull, TakeoverFails
    <2>3. ASSUME NEW m \in Nodes, AskPeer(n, m)
          PROVE  \E h : /\ h.at \in {"idle", "asking"} /\ Set(n, h)
                        /\ h.at = "asking" => Heard(h)
                        /\ UNCHANGED <<own, disk, grants, journal, failedSaves, won>>
        <3> DEFINE h == handler[n]
                   heard == [k \in DOMAIN h.seen \cup {m} |-> IF k = m THEN own[m] ELSE h.seen[k]]
        <3>1. h.at = "asking" /\ UNCHANGED <<own, disk, grants, journal, failedSaves, won>>
            BY <2>3, Zenon DEF AskPeer
        <3>2. Heard(h) BY <3>1, Zenon DEF OwnershipInv, Shape
        <3>3. \A k \in DOMAIN heard : Stored(heard[k])
            BY <3>2, Zenon DEF OwnershipInv, Shape, Heard
        <3>4. CASE Set(n, [h EXCEPT !.asked = @ \cup {m}])
            <4> DEFINE g == [h EXCEPT !.asked = @ \cup {m}]
            <4>1. g.at = "asking" /\ Heard(g) BY <3>1, <3>2 DEF Heard
            <4> QED BY <3>1, <3>4, <4>1, Zenon
        <3>5. ASSUME NEW up, Set(n, [h EXCEPT !.asked = @ \cup {m}, !.seen = heard, !.up = @ \cup up])
              PROVE  \E g : /\ g.at \in {"idle", "asking"} /\ Set(n, g)
                            /\ g.at = "asking" => Heard(g)
            <4> DEFINE g == [h EXCEPT !.asked = @ \cup {m}, !.seen = heard, !.up = @ \cup up]
            <4> HIDE DEF heard
            <4>1. g.at = "asking" BY <3>1
            <4>2. g.seen = heard /\ "seen" \in DOMAIN g BY <3>2, Zenon DEF Heard
            <4> HIDE DEF g
            <4>4. Heard(g) BY <3>3, <4>2, Zenon DEF Heard
            <4>5. Set(n, g) BY <3>5, Zenon DEF g
            <4> QED BY <4>1, <4>4, <4>5, Zenon
        <3> QED BY <2>3, <3>1, <3>4, <3>5, Zenon DEF AskPeer
    <2> QED BY <2>1, <2>2, <2>3, Zenon
<1>2. DOMAIN handler' = Nodes
      /\ \A m \in Nodes : handler'[m] = IF m = n THEN h ELSE handler[m]
    BY <1>1, Zenon DEF OwnershipInv, Shape, Set
<1>3. Entries' BY <1>1, Zenon DEF OwnershipInv, Entries, Required
<1>4. \A m \in Nodes : \A c : Backs(m, c)' => Backs(m, c) BY <1>1, StopsBacking
<1>5. \A m \in Nodes : handler'[m].at = "asking" => Heard(handler'[m])
    BY <1>1, <1>2, Zenon DEF OwnershipInv, Shape
<1>6. \A m \in Nodes : handler'[m].at = "sending" => Sent(m, handler'[m])
    BY <1>1, <1>2, Zenon DEF OwnershipInv, Shape
<1> QED BY <1>1, <1>2, <1>3, <1>4, <1>5, <1>6, HandlerKeeps, Zenon

\* The peer is not reached: the acceptances stay what they were.
LEMMA SkipPeerKeeps ==
    ASSUME OwnershipInv, NEW n \in Nodes, NEW k \in Nodes, SkipPeer(n, k)
    PROVE  Keeps
<1> DEFINE h == [handler[n] EXCEPT !.asked = @ \cup {k}]
<1>1. handler[n].at = "sending" /\ h.at = "sending" /\ h.acks = handler[n].acks
      /\ h.claim = handler[n].claim /\ DOMAIN h = DOMAIN handler[n]
    BY DEF SkipPeer
<1>2. DOMAIN handler' = Nodes
      /\ \A m \in Nodes : handler'[m] = IF m = n THEN h ELSE handler[m]
    BY Zenon DEF SkipPeer, OwnershipInv, Shape, Set
<1>3. UNCHANGED <<own, disk, grants, journal, failedSaves, won>> BY Zenon DEF SkipPeer
<1> HIDE DEF h
<1>4. Entries' BY <1>3, Zenon DEF OwnershipInv, Entries, Required
<1>5. \A m \in Nodes : \A c : Backs(m, c)' => Backs(m, c)
    BY <1>1, <1>2, <1>3 DEF Backs
<1>6. \A m \in Nodes : handler'[m].at = "asking" => Heard(handler'[m])
    BY <1>1, <1>2, Zenon DEF OwnershipInv, Shape
<1>7. \A m \in Nodes : handler'[m].at = "sending" => Sent(m, handler'[m])
    BY <1>1, <1>2, Zenon DEF OwnershipInv, Shape, Sent
<1> QED BY <1>2, <1>3, <1>4, <1>5, <1>6, <1>7, HandlerKeeps, Zenon

\* A claim that a query has found is a stored claim of some node.
LEMMA ClaimsRanked ==
    ASSUME OwnershipInv, NEW n \in Nodes, handler[n].at = "asking", NEW c \in Claims(handler[n])
    PROVE  Ranked(c)
BY Zenon DEF OwnershipInv, Shape, Heard, Claims, Stored

\* Grants, and queries that decide something or nothing, store at most one claim.
LEMMA StoringKeeps ==
    ASSUME MaxFailedSaves = 0, OwnershipInv, NEW n \in Nodes,
           \/ RecordControllerOwnershipGrant(n) \/ ObserveGrant(n)
           \/ Resolve(n) \/ RefuseTakeover(n) \/ Unresolved(n)
    PROVE  Keeps
<1>0. \A g \in grants : Ranked(g) BY Zenon DEF OwnershipInv, Shape
<1>1. CASE RecordControllerOwnershipGrant(n)
    <2>1. PICK saved \in BOOLEAN, t \in 1..MaxTerm :
              /\ Apply(n, Grant(t, n), FALSE, saved)
              /\ grants' = grants \cup {Grant(t, n)}
              /\ UNCHANGED <<journal, handler, won>>
        BY <1>1, Zenon DEF RecordControllerOwnershipGrant
    <2> DEFINE c == Grant(t, n)
    <2>2. Ranked(c) BY OwnershipAssumption DEF Ranked, Grant
    <2> HIDE DEF c
    <2>3. Apply(n, c, FALSE, saved) /\ grants' = grants \cup {c} BY <2>1, Zenon DEF c
    <2> QED BY <1>0, <2>1, <2>2, <2>3, StoreKeeps, Zenon
<1>2. CASE ObserveGrant(n)
    <2>1. PICK saved \in BOOLEAN, g \in grants :
              Apply(n, g, FALSE, saved) /\ UNCHANGED <<journal, grants, handler, won>>
        BY <1>2, Zenon DEF ObserveGrant
    <2> QED BY <1>0, <2>1, StoreKeeps, Zenon
<1>3. CASE Resolve(n)
    <2>1. handler[n].at = "asking" BY <1>3, Zenon DEF Resolve
    <2>2. PICK saved \in BOOLEAN, c \in Claims(handler[n]) :
              /\ Apply(n, c, FALSE, saved) /\ Set(n, [at |-> "idle"])
              /\ UNCHANGED <<journal, grants, won>>
        BY <1>3, Zenon DEF Resolve
    <2>3. Ranked(c) BY <2>1, ClaimsRanked, Zenon
    <2> QED BY <1>0, <2>2, <2>3, StoreKeeps, Zenon
<1>4. CASE RefuseTakeover(n)
    <2>1. handler[n].at = "asking" BY <1>4, Zenon DEF RefuseTakeover
    <2>2. PICK saved \in BOOLEAN, c \in Claims(handler[n]) :
              /\ Apply(n, c, FALSE, saved) /\ Set(n, [at |-> "idle"])
              /\ UNCHANGED <<journal, grants, won>>
        BY <1>4, Zenon DEF RefuseTakeover
    <2>3. Ranked(c) BY <2>1, ClaimsRanked
    <2> QED BY <1>0, <2>2, <2>3, StoreKeeps
<1>5. CASE Unresolved(n)
    <2>1. handler[n].at = "asking" BY <1>5, Zenon DEF Unresolved
    <2>2. PICK saved \in BOOLEAN :
              /\ \/ \E c \in Maximal(handler[n]) : Apply(n, c, FALSE, saved)
                 \/ UNCHANGED <<own, disk, failedSaves>>
              /\ Set(n, [at |-> "idle"]) /\ UNCHANGED <<journal, grants, won>>
        BY <1>5, Zenon DEF Unresolved
    <2>3. CASE \E c \in Maximal(handler[n]) : Apply(n, c, FALSE, saved)
        <3>1. PICK c \in Maximal(handler[n]) : Apply(n, c, FALSE, saved) BY <2>3, Zenon
        <3>2. Ranked(c) BY <2>1, ClaimsRanked, Zenon DEF Maximal
        <3> QED BY <1>0, <2>2, <3>1, <3>2, StoreKeeps, Zenon
    <2>4. CASE UNCHANGED <<own, disk, failedSaves>>
        <3>1. DOMAIN handler' = Nodes
              /\ \A m \in Nodes : handler'[m] = IF m = n THEN [at |-> "idle"] ELSE handler[m]
            BY <2>2, Zenon DEF OwnershipInv, Shape, Set
        <3>2. Entries' BY <2>2, Zenon DEF OwnershipInv, Entries, Required
        <3>3. \A m \in Nodes : \A c : Backs(m, c)' => Backs(m, c)
            BY <2>2, StopsBacking
        <3>4. \A m \in Nodes : handler'[m].at = "asking" => Heard(handler'[m])
            BY <3>1 DEF OwnershipInv, Shape
        <3>5. \A m \in Nodes : handler'[m].at = "sending" => Sent(m, handler'[m])
            BY <3>1 DEF OwnershipInv, Shape
        <3> QED BY <2>2, <2>4, <3>1, <3>2, <3>3, <3>4, <3>5, HandlerKeeps, Zenon
    <2> QED BY <2>2, <2>3, <2>4, Zenon
<1> QED BY <1>1, <1>2, <1>3, <1>4, <1>5, Zenon

\* The local compare-and-set: the node begins to back what it has just stored.
LEMMA TakeParentKeeps ==
    ASSUME MaxFailedSaves = 0, OwnershipInv, NEW n \in Nodes, TakeParent(n)
    PROVE  Keeps
<1> DEFINE p == handler[n].parent
           c == Takeover(n, handler[n].op, p)
<1>1. PICK saved \in BOOLEAN :
          /\ handler[n].at = "asking" /\ Resolved(n, p)
          /\ own' = [own EXCEPT ![n] = c] /\ Save(n, c, journal[n], saved)
          /\ Set(n, IF saved THEN [at |-> "journalling", claim |-> c] ELSE [at |-> "idle"])
          /\ UNCHANGED <<journal, grants, won>>
    BY Zenon DEF TakeParent
<1>2. p \in Claims(handler[n]) /\ Accepts(n, p, FALSE) BY <1>1, Zenon DEF Resolved, Maximal
<1>3. Ranked(p) BY <1>1, <1>2, ClaimsRanked, Zenon
<1>4. Grows(own[n], p) BY <1>2, <1>3, ReplacesGrows, Zenon
<1>5. Ranked(c) /\ Larger(c, p) BY <1>3 DEF Takeover, Ranked, Larger
<1>6. Grows(own[n], c)
    <2>1. CASE own[n] = NoClaim BY <2>1, <1>5, Zenon DEF Grows
    <2>2. CASE own[n] # NoClaim
        <3>1. Ranked(own[n]) BY <2>2, Zenon DEF OwnershipInv, Shape, Stored
        <3>2. own[n] = p \/ Larger(p, own[n]) BY <1>4, <2>2, Zenon DEF Grows
        <3>3. Larger(c, own[n]) BY <1>3, <1>5, <3>1, <3>2, RankOrder, Zenon
        <3> QED BY <1>5, <3>3, Zenon DEF Grows
    <2> QED BY <2>1, <2>2, Zenon
<1> HIDE DEF c
<1>7. saved /\ disk' = [disk EXCEPT ![n] = [own |-> c, journal |-> journal[n]]]
      /\ failedSaves' = failedSaves
    BY <1>1, SaveSucceeds, SavesCounted
<1>8. DOMAIN handler' = Nodes
      /\ \A m \in Nodes : handler'[m] = IF m = n THEN [at |-> "journalling", claim |-> c] ELSE handler[m]
    BY <1>1, <1>7, Zenon DEF OwnershipInv, Shape, Set
<1>9. DOMAIN own' = Nodes /\ \A m \in Nodes : own'[m] = IF m = n THEN c ELSE own[m]
    BY <1>1, Zenon DEF OwnershipInv, Shape
<1>10. UNCHANGED <<journal, grants, won>> BY <1>1, Zenon
<1>12. Saved' /\ DOMAIN disk' = Nodes
    <2>1. DOMAIN journal' = Nodes
          /\ \A m \in Nodes : journal'[m] = IF m = n THEN journal[n] ELSE journal[m]
        BY <1>10, Zenon DEF OwnershipInv, Shape
    <2> QED BY <1>7, <1>9, <2>1, SavedStep, Zenon
<1>11. Shape'
    <2>1. \A m \in Nodes : Stored(own'[m]) BY <1>5, <1>9, Zenon DEF OwnershipInv, Shape, Stored
    <2>2. DOMAIN journal' = Nodes BY <1>10, Zenon DEF OwnershipInv, Shape
    <2>3. failedSaves' \in Nat BY <1>7, SavesCounted, Zenon
    <2> DEFINE g == [at |-> "journalling", claim |-> c]
    <2>4. (g.at = "asking" => Heard(g)) /\ (g.at = "sending" => Sent(n, g)) BY Zenon
    <2>5. \A m \in Nodes : handler'[m] = IF m = n THEN g ELSE handler[m] BY <1>8, Zenon
    <2> HIDE DEF g
    <2> QED BY <1>8, <1>9, <1>10, <1>12, <2>1, <2>2, <2>3, <2>4, <2>5, ShapeStep, Zenon
<1>13. Entries' BY <1>10, Zenon DEF OwnershipInv, Entries, Required
<1>14. \A m \in Nodes : Grows(own[m], own'[m]) BY <1>6, <1>9, Zenon DEF Grows
<1>15. ASSUME NEW m \in Nodes, NEW d, Backs(m, d)'
       PROVE  Backs(m, d) \/ (Ranked(d) /\ own'[m] = d)
    <2>1. CASE m = n /\ d = c BY <1>5, <1>9, <2>1, Zenon
    <2>2. CASE ~(m = n /\ d = c) BY <1>8, <1>10, <1>15, <2>2 DEF Backs
    <2> QED BY <2>1, <2>2, Zenon
<1> QED BY <1>11, <1>12, <1>13, <1>14, <1>15, Zenon DEF Keeps

\* The journal entry keeps the node's own word.
LEMMA JournalKeeps ==
    ASSUME MaxFailedSaves = 0, OwnershipInv, NEW n \in Nodes, Journal(n)
    PROVE  Keeps
<1> DEFINE c == handler[n].claim
           e == Entry(c, {n}, FALSE)
           entries == journal[n] \cup {e}
           h == [at |-> "sending", claim |-> c, asked |-> {n}, acks |-> {n}]
<1>1. PICK saved \in BOOLEAN :
          /\ handler[n].at = "journalling"
          /\ journal' = [journal EXCEPT ![n] = entries] /\ Save(n, own[n], entries, saved)
          /\ Set(n, IF saved THEN h ELSE [at |-> "idle"])
          /\ UNCHANGED <<own, grants, won>>
    BY Zenon DEF Journal
<1>2. e.claim = c /\ e.by = {n} /\ e.succeeded = FALSE BY Zenon DEF Entry
<1>3. h.at = "sending" /\ h.claim = c /\ h.acks = {n} /\ "acks" \in DOMAIN h BY Zenon
<1> HIDE DEF e, h
<1>4. saved /\ disk' = [disk EXCEPT ![n] = [own |-> own[n], journal |-> entries]]
      /\ failedSaves' = failedSaves
    <2>1. Save(n, own[n], entries, saved) BY <1>1, Zenon
    <2> HIDE DEF entries
    <2> QED BY <2>1, SaveSucceeds, SavesCounted
<1>5. DOMAIN handler' = Nodes
      /\ \A m \in Nodes : handler'[m] = IF m = n THEN h ELSE handler[m]
    BY <1>1, <1>4, Zenon DEF OwnershipInv, Shape, Set
<1>6. DOMAIN journal' = Nodes
      /\ \A m \in Nodes : journal'[m] = IF m = n THEN entries ELSE journal[m]
    BY <1>1, Zenon DEF OwnershipInv, Shape
<1>7. UNCHANGED <<own, grants, won>> BY <1>1, Zenon
<1>8. \A f \in entries : f \in journal[n] \/ (f.claim = c /\ f.by = {n} /\ f.succeeded = FALSE)
    BY <1>2, Zenon
<1> HIDE DEF entries
<1>9. DOMAIN own' = Nodes /\ \A m \in Nodes : own'[m] = IF m = n THEN own[n] ELSE own[m]
    BY <1>7, Zenon DEF OwnershipInv, Shape
<1>10. Saved' /\ DOMAIN disk' = Nodes BY <1>4, <1>6, <1>9, SavedStep, Zenon
<1>11. Shape'
    <2>1. \A m \in Nodes : Stored(own'[m]) BY <1>7, Zenon DEF OwnershipInv, Shape
    <2>2. failedSaves' \in Nat BY <1>4, SavesCounted, Zenon
    <2>3. Sent(n, h) BY <1>3, Zenon DEF Sent
    <2> QED BY <1>3, <1>5, <1>6, <1>7, <1>9, <1>10, <2>1, <2>2, <2>3, ShapeStep
<1>12. Entries'
    <2>1. ASSUME NEW m \in Nodes, NEW f \in journal'[m]
          PROVE  m \in f.by /\ f.by \subseteq Nodes /\ (f.succeeded => Cardinality(f.by) >= Required)
        <3>1. CASE f \in journal[m] BY <3>1, Zenon DEF OwnershipInv, Entries
        <3>2. CASE f \notin journal[m]
            <4>1. m = n /\ f \in entries BY <1>6, <2>1, <3>2, Zenon
            <4> QED BY <1>8, <3>2, <4>1, Zenon
        <3> QED BY <3>1, <3>2, Zenon
    <2>2. \A f \in won' : f.by \subseteq Nodes /\ Cardinality(f.by) >= Required
        BY <1>7, Zenon DEF OwnershipInv, Entries
    <2> QED BY <2>1, <2>2, Zenon DEF Entries, Required
<1>13. \A m \in Nodes : Grows(own[m], own'[m]) BY <1>7, Zenon DEF Grows
<1>14. Backs(n, c) BY <1>1, Zenon DEF Backs
<1>15. ASSUME NEW m \in Nodes, NEW d, Backs(m, d)' PROVE Backs(m, d)
    <2>1. CASE m = n /\ d = c BY <2>1, <1>14, Zenon
    <2>2. CASE ~(m = n /\ d = c) BY <1>3, <1>5, <1>6, <1>7, <1>8, <1>15, <2>2 DEF Backs
    <2> QED BY <2>1, <2>2, Zenon
<1> QED BY <1>10, <1>11, <1>12, <1>13, <1>15, Zenon DEF Keeps

\* A takeover begins with a query, or goes on from its journal entry.
LEMMA BeginTakeoverKeeps ==
    ASSUME OwnershipInv, NEW n \in Nodes, NEW o \in Ops, BeginTakeover(n, o)
    PROVE  Keeps
<1> DEFINE known == {e \in journal[n] : e.claim.op = o}
<1>1. UNCHANGED <<own, disk, grants, journal, failedSaves>> BY Zenon DEF BeginTakeover
<1>2. CASE known = {}
    <2> DEFINE h == Query(n, o, offered[n])
    <2>1. Set(n, h) /\ won' = won BY <1>2, Zenon DEF BeginTakeover
    <2>2. h.at = "asking" /\ Heard(h) BY Zenon DEF Query, Heard, OwnershipInv, Shape
    <2> HIDE DEF h
    <2>3. DOMAIN handler' = Nodes
          /\ \A m \in Nodes : handler'[m] = IF m = n THEN h ELSE handler[m]
        BY <2>1, Zenon DEF OwnershipInv, Shape, Set
    <2>4. Entries' BY <1>1, <2>1, Zenon DEF OwnershipInv, Entries, Required
    <2>5. \A m \in Nodes : \A c : Backs(m, c)' => Backs(m, c)
        BY <1>1, <2>1, <2>2, StopsBacking
    <2>6. \A m \in Nodes : handler'[m].at = "asking" => Heard(handler'[m])
        BY <2>2, <2>3, Zenon DEF OwnershipInv, Shape
    <2>7. \A m \in Nodes : handler'[m].at = "sending" => Sent(m, handler'[m])
        BY <2>2, <2>3, Zenon DEF OwnershipInv, Shape
    <2> QED BY <1>1, <2>3, <2>4, <2>5, <2>6, <2>7, HandlerKeeps, Zenon
<1>3. ASSUME NEW e \in journal[n], e.succeeded, won' = won \cup {e}, handler' = handler
      PROVE  Keeps
    <2>1. Entries' BY <1>1, <1>3, Zenon DEF OwnershipInv, Entries, Required
    <2>2. \A m \in Nodes : \A c : Backs(m, c)' => Backs(m, c) BY <1>1, <1>3, Zenon DEF Backs
    <2>3. DOMAIN handler' = Nodes BY <1>3, Zenon DEF OwnershipInv, Shape
    <2>4. \A m \in Nodes : handler'[m].at = "asking" => Heard(handler'[m])
        BY <1>3, Zenon DEF OwnershipInv, Shape
    <2>5. \A m \in Nodes : handler'[m].at = "sending" => Sent(m, handler'[m])
        BY <1>3, Zenon DEF OwnershipInv, Shape
    <2> QED BY <1>1, <2>1, <2>2, <2>3, <2>4, <2>5, HandlerKeeps, Zenon
<1>4. ASSUME NEW e \in journal[n], won' = won,
             Set(n, [at |-> "sending", claim |-> e.claim, asked |-> {n}, acks |-> {n}])
      PROVE  Keeps
    <2> DEFINE h == [at |-> "sending", claim |-> e.claim, asked |-> {n}, acks |-> {n}]
    <2>1. h.at = "sending" /\ h.claim = e.claim /\ h.acks = {n} /\ "acks" \in DOMAIN h BY Zenon
    <2>2. Set(n, h) BY <1>4, Zenon
    <2> HIDE DEF h
    <2>3. DOMAIN handler' = Nodes
          /\ \A m \in Nodes : handler'[m] = IF m = n THEN h ELSE handler[m]
        BY <2>2, Zenon DEF OwnershipInv, Shape, Set
    <2>4. Entries' BY <1>1, <1>4, Zenon DEF OwnershipInv, Entries, Required
    <2>5. Backs(n, e.claim) BY Zenon DEF Backs, OwnershipInv, Entries
    <2>6. ASSUME NEW m \in Nodes, NEW c, Backs(m, c)' PROVE Backs(m, c)
        <3>1. CASE m = n /\ c = e.claim BY <2>5, <3>1, Zenon
        <3>2. CASE ~(m = n /\ c = e.claim) BY <1>1, <1>4, <2>1, <2>3, <2>6, <3>2, Zenon DEF Backs
        <3> QED BY <3>1, <3>2, Zenon
    <2>7. \A m \in Nodes : handler'[m].at = "asking" => Heard(handler'[m])
        BY <2>1, <2>3, Zenon DEF OwnershipInv, Shape
    <2>8. \A m \in Nodes : handler'[m].at = "sending" => Sent(m, handler'[m])
        BY <2>1, <2>3, Zenon DEF OwnershipInv, Shape, Sent
    <2> QED BY <1>1, <2>3, <2>4, <2>6, <2>7, <2>8, HandlerKeeps, Zenon
<1> QED BY <1>2, <1>3, <1>4, Zenon DEF BeginTakeover

\* A peer's acceptance is counted only for a claim that it stores.
LEMMA ObserveTakeoverKeeps ==
    ASSUME MaxFailedSaves = 0, OwnershipInv, NEW n \in Nodes, NEW k \in Nodes, ObserveTakeover(n, k)
    PROVE  Keeps
<1> DEFINE h == handler[n]
<1>1. h.at = "sending" /\ UNCHANGED <<journal, grants, won>> BY Zenon DEF ObserveTakeover
<1>2. Sent(n, h) BY <1>1, Zenon DEF OwnershipInv, Shape
<1>3. Ranked(h.claim)
    <2>1. Backs(n, h.claim) BY <1>1, <1>2, Zenon DEF Backs, Sent
    <2> QED BY <2>1, Zenon DEF OwnershipInv, Backing, Covers
<1>4. PICK acks : /\ acks = h.acks \/ (acks = h.acks \cup {k} /\ own'[k] = h.claim)
                  /\ Set(n, [h EXCEPT !.asked = @ \cup {k}, !.acks = acks])
                  /\ \/ /\ Accepts(k, h.claim, TRUE) /\ own' = [own EXCEPT ![k] = h.claim]
                        /\ DOMAIN disk' = Nodes /\ failedSaves' = failedSaves
                        /\ \A m \in Nodes : disk'[m] =
                              IF m = k THEN [own |-> h.claim, journal |-> journal[k]] ELSE disk[m]
                     \/ UNCHANGED <<own, disk, failedSaves>>
    <2>1. PICK saved, answered \in BOOLEAN :
             IF Accepts(k, h.claim, TRUE)
             THEN /\ own' = [own EXCEPT ![k] = h.claim]
                  /\ IF own[k] # h.claim THEN Save(k, h.claim, journal[k], saved)
                     ELSE saved /\ UNCHANGED <<disk, failedSaves>>
                  /\ Set(n, [h EXCEPT !.asked = @ \cup {k},
                                      !.acks = IF saved /\ answered THEN @ \cup {k} ELSE @])
             ELSE /\ saved /\ answered
                  /\ Set(n, [h EXCEPT !.asked = @ \cup {k}])
                  /\ UNCHANGED <<own, disk, failedSaves>>
        BY Zenon DEF ObserveTakeover
    <2>2. CASE Accepts(k, h.claim, TRUE)
        <3> DEFINE acks == IF saved /\ answered THEN h.acks \cup {k} ELSE h.acks
        <3>1. own'[k] = h.claim BY <2>1, <2>2, Zenon DEF OwnershipInv, Shape
        <3>2. Set(n, [h EXCEPT !.asked = @ \cup {k}, !.acks = acks]) BY <2>1, <2>2, Zenon
        <3>3. /\ DOMAIN disk' = Nodes /\ failedSaves' = failedSaves
              /\ \A m \in Nodes : disk'[m] =
                    IF m = k THEN [own |-> h.claim, journal |-> journal[k]] ELSE disk[m]
            <4>1. CASE own[k] # h.claim
                <5>1. disk' = [disk EXCEPT ![k] = [own |-> h.claim, journal |-> journal[k]]]
                      /\ failedSaves' = failedSaves
                    BY <2>1, <2>2, <4>1, SaveSucceeds, SavesCounted
                <5> QED BY <5>1, Zenon DEF OwnershipInv, Shape
            <4>2. CASE own[k] = h.claim
                BY <2>1, <2>2, <4>2, Zenon DEF OwnershipInv, Shape, Saved
            <4> QED BY <4>1, <4>2, Zenon
        <3> QED BY <2>1, <2>2, <3>1, <3>2, <3>3, Zenon
    <2>3. CASE ~Accepts(k, h.claim, TRUE)
        <3>1. [h EXCEPT !.asked = @ \cup {k}] = [h EXCEPT !.asked = @ \cup {k}, !.acks = h.acks]
            BY <1>2, Zenon DEF Sent
        <3> QED BY <2>1, <2>3, <3>1, Zenon
    <2> QED BY <2>2, <2>3, Zenon
<1> DEFINE g == [h EXCEPT !.asked = @ \cup {k}, !.acks = acks]
<1>5. g.at = "sending" /\ g.claim = h.claim /\ g.acks = acks /\ "acks" \in DOMAIN g
    BY <1>1, <1>2 DEF Sent
<1>6. Set(n, g) BY <1>4, Zenon
<1> HIDE DEF g
<1>7. DOMAIN handler' = Nodes
      /\ \A m \in Nodes : handler'[m] = IF m = n THEN g ELSE handler[m]
    BY <1>6, Zenon DEF OwnershipInv, Shape, Set
<1>8. \A m \in Nodes : Stored(own'[m]) /\ Grows(own[m], own'[m])
    <2>1. CASE UNCHANGED own BY <2>1, Zenon DEF OwnershipInv, Shape, Grows
    <2>2. CASE Accepts(k, h.claim, TRUE) /\ own' = [own EXCEPT ![k] = h.claim]
        <3>1. Grows(own[k], h.claim) BY <1>3, <2>2, ReplacesGrows, Zenon
        <3> QED BY <1>3, <2>2, <3>1, Zenon DEF OwnershipInv, Shape, Grows, Stored
    <2> QED BY <1>4, <2>1, <2>2, Zenon
<1>9. Shape' BY <1>1, <1>2, <1>4, <1>5, <1>7, <1>8, Zenon DEF OwnershipInv, Shape, Sent
<1>10. Entries' BY <1>1, Zenon DEF OwnershipInv, Entries, Required
<1>11. Saved' BY <1>1, <1>4, Zenon DEF OwnershipInv, Shape, Saved
<1>12. ASSUME NEW m \in Nodes, NEW c, Backs(m, c)'
       PROVE  Backs(m, c) \/ (Ranked(c) /\ own'[m] = c)
    <2>1. CASE c = h.claim /\ m \in acks
        <3>1. CASE m \in h.acks BY <1>1, <2>1, <3>1, Zenon DEF Backs
        <3>2. CASE m \notin h.acks BY <1>3, <1>4, <2>1, <3>2, Zenon
        <3> QED BY <3>1, <3>2, Zenon
    <2>2. CASE ~(c = h.claim /\ m \in acks) BY <1>1, <1>5, <1>7, <1>12, <2>2, Zenon DEF Backs
    <2> QED BY <2>1, <2>2, Zenon
<1> QED BY <1>8, <1>9, <1>10, <1>11, <1>12, Zenon DEF Keeps

\* The committed entry carries the acceptances that were counted.
LEMMA CommitKeeps ==
    ASSUME MaxFailedSaves = 0, OwnershipInv, NEW n \in Nodes, Commit(n)
    PROVE  Keeps
<1> DEFINE h == handler[n]
           e == Entry(h.claim, h.acks, TRUE)
           entries == {f \in journal[n] : f.claim # h.claim} \cup {e}
<1>1. PICK saved \in BOOLEAN :
          /\ h.at = "sending" /\ Cardinality(h.acks) >= Required
          /\ journal' = [journal EXCEPT ![n] = entries] /\ Save(n, own[n], entries, saved)
          /\ won' = IF saved THEN won \cup {e} ELSE won
          /\ Set(n, [at |-> "idle"])
          /\ UNCHANGED <<own, grants>>
    BY Zenon DEF Commit
<1>2. e.claim = h.claim /\ e.by = h.acks BY Zenon DEF Entry
<1> HIDE DEF e
<1>3. saved /\ disk' = [disk EXCEPT ![n] = [own |-> own[n], journal |-> entries]]
      /\ failedSaves' = failedSaves
    <2>1. Save(n, own[n], entries, saved) BY <1>1, Zenon
    <2> HIDE DEF entries
    <2> QED BY <2>1, SaveSucceeds, SavesCounted
<1>4. DOMAIN handler' = Nodes
      /\ \A m \in Nodes : handler'[m] = IF m = n THEN [at |-> "idle"] ELSE handler[m]
    BY <1>1, Zenon DEF OwnershipInv, Shape, Set
<1>5. DOMAIN journal' = Nodes
      /\ \A m \in Nodes : journal'[m] = IF m = n THEN entries ELSE journal[m]
    BY <1>1, Zenon DEF OwnershipInv, Shape
<1>6. Sent(n, h) /\ Cardinality(h.acks) >= Required BY <1>1, Zenon DEF OwnershipInv, Shape
<1>7. UNCHANGED <<own, grants>> /\ won' = won \cup {e} BY <1>1, <1>3, Zenon
<1>8. \A f \in entries : f \in journal[n] \/ f = e BY Zenon
<1> HIDE DEF entries
<1>9. DOMAIN own' = Nodes /\ \A m \in Nodes : own'[m] = IF m = n THEN own[n] ELSE own[m]
    BY <1>7, Zenon DEF OwnershipInv, Shape
<1>10. Saved' /\ DOMAIN disk' = Nodes BY <1>3, <1>5, <1>9, SavedStep
<1>11. Shape'
    <2>1. \A m \in Nodes : Stored(own'[m]) BY <1>7, Zenon DEF OwnershipInv, Shape
    <2>2. failedSaves' \in Nat BY <1>3, SavesCounted
    <2> DEFINE g == [at |-> "idle"]
    <2>3. (g.at = "asking" => Heard(g)) /\ (g.at = "sending" => Sent(n, g)) BY Zenon
    <2>4. \A m \in Nodes : handler'[m] = IF m = n THEN g ELSE handler[m] BY <1>4, Zenon
    <2> HIDE DEF g
    <2> QED BY <1>4, <1>5, <1>7, <1>9, <1>10, <2>1, <2>2, <2>3, <2>4, ShapeStep, Zenon
<1>12. Entries'
    <2>1. n \in e.by /\ e.by \subseteq Nodes /\ Cardinality(e.by) >= Required
        BY <1>2, <1>6, Zenon DEF Sent
    <2>2. ASSUME NEW m \in Nodes, NEW f \in journal'[m]
          PROVE  m \in f.by /\ f.by \subseteq Nodes /\ (f.succeeded => Cardinality(f.by) >= Required)
        <3>1. CASE f \in journal[m] BY <3>1 DEF OwnershipInv, Entries
        <3>2. CASE f \notin journal[m]
            <4>1. m = n /\ f \in entries BY <1>5, <2>2, <3>2
            <4>2. f = e BY <1>8, <3>2, <4>1, Zenon
            <4> QED BY <2>1, <4>1, <4>2, Zenon
        <3> QED BY <3>1, <3>2
    <2>3. \A f \in won' : f.by \subseteq Nodes /\ Cardinality(f.by) >= Required
        BY <1>7, <2>1, Zenon DEF OwnershipInv, Entries
    <2> QED BY <2>2, <2>3 DEF Entries, Required
<1>13. \A m \in Nodes : Grows(own[m], own'[m]) BY <1>7, Zenon DEF Grows
<1>14. \A m \in h.acks : Backs(m, h.claim) BY <1>1, Zenon DEF Backs
<1>15. ASSUME NEW m \in Nodes, NEW c, Backs(m, c)' PROVE Backs(m, c)
    <2>1. CASE m \in h.acks /\ c = h.claim BY <1>14, <2>1, Zenon
    <2>2. CASE ~(m \in h.acks /\ c = h.claim)
        BY <1>2, <1>4, <1>5, <1>7, <1>8, <1>15, <2>2 DEF Backs
    <2> QED BY <2>1, <2>2, Zenon
<1> QED BY <1>10, <1>11, <1>12, <1>13, <1>15 DEF Keeps

\* With all saved, a restart forgets only the request in progress.
LEMMA CrashKeeps ==
    ASSUME OwnershipInv, NEW n \in Nodes, Crash(n)
    PROVE  Keeps
<1>1. Set(n, [at |-> "idle"]) /\ UNCHANGED <<disk, grants, won, failedSaves>> BY Zenon DEF Crash
<1>2. DOMAIN own' = Nodes /\ DOMAIN journal' = Nodes
      /\ \A m \in Nodes : own'[m] = own[m] /\ journal'[m] = journal[m]
    <2>1. disk[n].own = own[n] /\ disk[n].journal = journal[n]
        <3>1. disk[n] = [own |-> own[n], journal |-> journal[n]] BY Zenon DEF OwnershipInv, Saved
        <3> QED BY <3>1
    <2>2. /\ own' = [own EXCEPT ![n] = own[n]]
          /\ journal' = [journal EXCEPT ![n] = journal[n]]
        BY <2>1, Zenon DEF Crash
    <2>3. DOMAIN own = Nodes /\ DOMAIN journal = Nodes BY Zenon DEF OwnershipInv, Shape
    <2> QED BY <2>2, <2>3, Zenon
<1>3. DOMAIN handler' = Nodes
      /\ \A m \in Nodes : handler'[m] = IF m = n THEN [at |-> "idle"] ELSE handler[m]
    BY <1>1, Zenon DEF OwnershipInv, Shape, Set
<1>4. Shape'
    <2>1. \A m \in Nodes : Stored(own'[m]) BY <1>2, Zenon DEF OwnershipInv, Shape
    <2>2. failedSaves' \in Nat /\ DOMAIN disk' = Nodes BY <1>1, Zenon DEF OwnershipInv, Shape
    <2> DEFINE g == [at |-> "idle"]
    <2>3. (g.at = "asking" => Heard(g)) /\ (g.at = "sending" => Sent(n, g)) BY Zenon
    <2>4. \A m \in Nodes : handler'[m] = IF m = n THEN g ELSE handler[m] BY <1>3, Zenon
    <2> HIDE DEF g
    <2> QED BY <1>1, <1>2, <1>3, <2>1, <2>2, <2>3, <2>4, ShapeStep, Zenon
<1>5. Entries' BY <1>1, <1>2, Zenon DEF OwnershipInv, Entries, Required
<1>6. Saved' BY <1>1, <1>2, Zenon DEF OwnershipInv, Saved
<1>7. \A m \in Nodes : Grows(own[m], own'[m]) BY <1>2, Zenon DEF Grows
<1>8. \A m \in Nodes : \A c : Backs(m, c)' => Backs(m, c) BY <1>1, <1>2, <1>3 DEF Backs
<1> QED BY <1>4, <1>5, <1>6, <1>7, <1>8, Zenon DEF Keeps

---------------------------------------------------------------------------
(* The theorems.                                                           *)

\* Every step of an Agent keeps the invariant and lets stored claims grow.
LEMMA NextKeeps ==
    ASSUME MaxFailedSaves = 0, OwnershipInv, Next
    PROVE  OwnershipInv' /\ \A m \in Nodes : Grows(own[m], own'[m])
<1>1. Keeps
    <2>1. PICK n \in Nodes :
            \/ RecordControllerOwnershipGrant(n) \/ ObserveGrant(n)
            \/ BeginResolve(n) \/ \E o \in Ops : BeginTakeover(n, o)
            \/ \E m \in Nodes : AskPeer(n, m) \/ ObserveTakeover(n, m) \/ SkipPeer(n, m)
            \/ Resolve(n) \/ Unresolved(n) \/ QueryTimesOut(n) \/ TakeParent(n) \/ RefuseTakeover(n)
            \/ Journal(n) \/ JournalFull(n) \/ Commit(n) \/ TakeoverFails(n) \/ Crash(n)
        BY Zenon DEF Next
    <2>2. CASE \/ RecordControllerOwnershipGrant(n) \/ ObserveGrant(n)
               \/ Resolve(n) \/ RefuseTakeover(n) \/ Unresolved(n)
        BY <2>2, StoringKeeps, Zenon
    <2>3. CASE \/ BeginResolve(n) \/ QueryTimesOut(n) \/ JournalFull(n) \/ TakeoverFails(n)
               \/ \E m \in Nodes : AskPeer(n, m)
        BY <2>3, AskingKeeps, Zenon
    <2>4. CASE \E o \in Ops : BeginTakeover(n, o) BY <2>4, BeginTakeoverKeeps, Zenon
    <2>5. CASE \E m \in Nodes : ObserveTakeover(n, m) BY <2>5, ObserveTakeoverKeeps, Zenon
    <2>6. CASE \E m \in Nodes : SkipPeer(n, m) BY <2>6, SkipPeerKeeps, Zenon
    <2>7. CASE TakeParent(n) BY <2>7, TakeParentKeeps, Zenon
    <2>8. CASE Journal(n) BY <2>8, JournalKeeps
    <2>9. CASE Commit(n) BY <2>9, CommitKeeps
    <2>10. CASE Crash(n) BY <2>10, CrashKeeps, Zenon
    <2> QED BY <2>1, <2>2, <2>3, <2>4, <2>5, <2>6, <2>7, <2>8, <2>9, <2>10, Zenon
<1>2. Backing' /\ OneBacking' BY <1>1, BackingStep, Zenon DEF Keeps
<1> QED BY <1>1, <1>2, Zenon DEF Keeps, OwnershipInv

\* A new installation backs nothing.
LEMMA InitKeeps == Init => OwnershipInv
<1> SUFFICES ASSUME Init PROVE OwnershipInv BY Zenon
<1>1. Shape BY Zenon DEF Init, Shape, Stored
<1>2. Entries BY Zenon DEF Init, Entries
<1>3. Saved BY Zenon DEF Init, Saved
<1>4. \A m \in Nodes : \A c : ~Backs(m, c) BY Zenon DEF Init, Backs
<1> QED BY <1>1, <1>2, <1>3, <1>4, Zenon DEF OwnershipInv, Backing, OneBacking

\* A step that changes nothing keeps the invariant.
LEMMA StutterKeeps == OwnershipInv /\ UNCHANGED vars => OwnershipInv'
<1> SUFFICES ASSUME OwnershipInv, UNCHANGED vars PROVE OwnershipInv' BY Zenon
<1>1. UNCHANGED <<own, journal, disk, grants, handler, won, failedSaves>> BY Zenon DEF vars
<1>2. Shape' BY <1>1, Zenon DEF OwnershipInv, Shape
<1>3. Entries' /\ Saved' BY <1>1, Zenon DEF OwnershipInv, Entries, Saved, Required
<1>4. \A m, c : Backs(m, c)' <=> Backs(m, c) BY <1>1, Zenon DEF Backs
<1>5. Backing' /\ OneBacking' BY <1>1, <1>4, Zenon DEF OwnershipInv, Backing, OneBacking
<1> QED BY <1>2, <1>3, <1>5, Zenon DEF OwnershipInv

\* Any two sets of nodes that performUserConfirmedTakeover takes for a majority
\* have a node in common.
LEMMA MajoritiesMeet ==
    ASSUME NEW A \in SUBSET Nodes, NEW B \in SUBSET Nodes,
           Cardinality(A) >= Required, Cardinality(B) >= Required
    PROVE  \E m \in Nodes : m \in A /\ m \in B
<1> SUFFICES ASSUME A \cap B = {} PROVE FALSE BY Zenon
<1>1. IsFiniteSet(Nodes) BY OwnershipAssumption, Zenon
<1>2. IsFiniteSet(A) /\ IsFiniteSet(B) BY <1>1, FS_Subset, Zenon
<1>3. Cardinality(A \cup B) = Cardinality(A) + Cardinality(B) - Cardinality(A \cap B)
    BY <1>2, FS_Union, Zenon
<1>4. Cardinality(A \cap B) = 0 BY FS_EmptySet, Zenon
<1>5. Cardinality(A \cup B) <= Cardinality(Nodes) BY <1>1, FS_Subset, Zenon
<1>6. Cardinality(Nodes) \in Nat /\ Cardinality(A) \in Nat /\ Cardinality(B) \in Nat
    BY <1>1, <1>2, FS_CardinalityType, Zenon
<1> QED BY <1>3, <1>4, <1>5, <1>6 DEF Required

\* While every save succeeds, the invariant holds: the Agents that accepted a
\* takeover store it or a larger claim, and no Agent backs two of one rank
\* (applyActivityOwnershipClaim, performUserConfirmedTakeover).
THEOREM OwnershipInvariant ==
    ASSUME MaxFailedSaves = 0
    PROVE  Spec => []OwnershipInv
<1>1. Init => OwnershipInv BY InitKeeps, Zenon
<1>2. OwnershipInv /\ [Next]_vars => OwnershipInv' BY NextKeeps, StutterKeeps, Zenon
<1> QED BY <1>1, <1>2, PTL DEF Spec

\* While every save succeeds, at most one takeover of each rank is committed,
\* whatever is lost, retried or restarted (performUserConfirmedTakeover).
THEOREM OneWinnerTheorem ==
    ASSUME MaxFailedSaves = 0
    PROVE  Spec => []OneWinnerPerRank
<1>1. OwnershipInv => OneWinnerPerRank
    <2> SUFFICES ASSUME OwnershipInv, NEW v \in won, NEW w \in won,
                        v.claim.term = w.claim.term, v.claim.seq = w.claim.seq
                 PROVE  v.claim = w.claim
        BY Zenon DEF OneWinnerPerRank
    <2>1. PICK m \in Nodes : m \in v.by /\ m \in w.by
        BY MajoritiesMeet, Zenon DEF OwnershipInv, Entries
    <2>2. Backs(m, v.claim) /\ Backs(m, w.claim) BY <2>1, Zenon DEF Backs
    <2> QED BY <2>2, Zenon DEF OwnershipInv, OneBacking, SameRank
<1> QED BY <1>1, OwnershipInvariant, PTL

\* While every save succeeds, a committed takeover, or something larger, is on
\* the disks of a majority for good (handlePeerOwnershipObserve,
\* saveRuntimeStateLocked).
THEOREM WinnersDurableTheorem ==
    ASSUME MaxFailedSaves = 0
    PROVE  Spec => []WinnersAreDurable
<1>1. OwnershipInv => WinnersAreDurable
    <2> SUFFICES ASSUME OwnershipInv, NEW w \in won
                 PROVE  Cardinality({n \in Nodes :
                            /\ disk[n].own # NoClaim
                            /\ disk[n].own = w.claim \/ Larger(disk[n].own, w.claim)}) >= Required
        BY Zenon DEF WinnersAreDurable
    <2> DEFINE D == {n \in Nodes : /\ disk[n].own # NoClaim
                                   /\ disk[n].own = w.claim \/ Larger(disk[n].own, w.claim)}
    <2>1. ASSUME NEW m \in w.by PROVE m \in D
        <3>1. m \in Nodes BY Zenon DEF OwnershipInv, Entries
        <3>2. Covers(own[m], w.claim)
            <4>1. Backs(m, w.claim) BY Zenon DEF Backs
            <4> QED BY <3>1, <4>1, Zenon DEF OwnershipInv, Backing
        <3>3. disk[m].own = own[m]
            <4>1. disk[m] = [own |-> own[m], journal |-> journal[m]]
                BY <3>1, Zenon DEF OwnershipInv, Saved
            <4> QED BY <4>1
        <3>4. own[m] # NoClaim BY <3>2, RankOrder, Zenon DEF Covers
        <3> QED BY <3>1, <3>2, <3>3, <3>4, Zenon DEF Covers
    <2>2. IsFiniteSet(D) BY OwnershipAssumption, FS_Subset, Zenon
    <2>3. Cardinality(w.by) >= Required BY Zenon DEF OwnershipInv, Entries
    <2> HIDE DEF D
    <2>4. w.by \in SUBSET D BY <2>1, Zenon
    <2>5. IsFiniteSet(w.by) /\ Cardinality(w.by) <= Cardinality(D) BY <2>2, <2>4, FS_Subset, Zenon
    <2>6. Cardinality(w.by) \in Nat /\ Cardinality(D) \in Nat BY <2>2, <2>5, FS_CardinalityType, Zenon
    <2>7. Cardinality(Nodes) \in Nat BY OwnershipAssumption, FS_CardinalityType, Zenon
    <2>8. Cardinality(D) >= Required BY <2>3, <2>5, <2>6, <2>7 DEF Required
    <2> QED BY <2>8, Zenon DEF D
<1> QED BY <1>1, OwnershipInvariant, PTL

\* While every save succeeds, no step, a restart included, replaces a stored
\* claim by an older one (applyActivityOwnershipClaim).
THEOREM ClaimsGrowTheorem ==
    ASSUME MaxFailedSaves = 0
    PROVE  Spec => ClaimsOnlyGrow
<1>1. OwnershipInv /\ [Next]_vars =>
        [\A n \in Nodes : own[n] # NoClaim =>
            own'[n] = own[n] \/ (own'[n] # NoClaim /\ Larger(own'[n], own[n]))]_own
    <2>1. CASE OwnershipInv /\ Next
        <3> SUFFICES ASSUME NEW n \in Nodes, own[n] # NoClaim, own'[n] # own[n]
                     PROVE  own'[n] # NoClaim /\ Larger(own'[n], own[n])
            BY Zenon
        <3>1. Grows(own[n], own'[n]) BY <2>1, NextKeeps, Zenon
        <3>2. Ranked(own'[n]) /\ Larger(own'[n], own[n]) BY <3>1, Zenon DEF Grows
        <3> QED BY <3>2, RankOrder, Zenon
    <2>2. CASE UNCHANGED vars BY <2>2, Zenon DEF vars
    <2> QED BY <2>1, <2>2, Zenon
<1> QED BY <1>1, OwnershipInvariant, PTL DEF Spec, ClaimsOnlyGrow

---------------------------------------------------------------------------
(* What a query that is under way has seen of the takeovers committed      *)
(* before it began.                                                        *)

\* For each of them, what the query has heard from a node that accepted it is
\* at least as large.
SeesWinners(h) ==
    /\ "floor" \in DOMAIN h /\ DOMAIN h.seen \subseteq Nodes
    /\ \A w \in h.floor : \E e \in won :
          e.claim = w /\ \A m \in DOMAIN h.seen : m \in e.by => Covers(h.seen[m], w)

FloorInv == \A n \in Nodes : handler[n].at = "asking" => SeesWinners(handler[n])

\* A node that accepted a committed takeover stores it or something larger.
LEMMA AcceptorCovers ==
    ASSUME OwnershipInv, NEW e \in won, NEW m \in Nodes, m \in e.by
    PROVE  Covers(own[m], e.claim)
<1>1. Backs(m, e.claim) BY Zenon DEF Backs
<1> QED BY <1>1, Zenon DEF OwnershipInv, Backing

\* Committed takeovers are not forgotten, so only the query that changes counts.
LEMMA FloorStep ==
    ASSUME OwnershipInv, FloorInv, NEW n \in Nodes, NEW h, Set(n, h), won \subseteq won',
           h.at = "asking" => SeesWinners(h)'
    PROVE  FloorInv'
<1>1. \A m \in Nodes : handler'[m] = IF m = n THEN h ELSE handler[m]
    BY Zenon DEF OwnershipInv, Shape, Set
<1>2. ASSUME NEW g, SeesWinners(g) PROVE SeesWinners(g)'
    BY <1>2, Zenon DEF SeesWinners
<1> QED BY <1>1, <1>2, Zenon DEF FloorInv

\* A query starts from the node's own claim.
LEMMA QuerySees ==
    ASSUME OwnershipInv, NEW n \in Nodes, NEW o, NEW p, won' = won,
           NEW h, h = Query(n, o, p)
    PROVE  SeesWinners(h)'
<1>1. /\ "floor" \in DOMAIN h /\ h.floor = {w.claim : w \in won}
      /\ DOMAIN h.seen = {n} /\ h.seen[n] = own[n]
    BY Zenon DEF Query
<1>2. ASSUME NEW w \in h.floor
      PROVE  \E e \in won : e.claim = w /\ \A m \in DOMAIN h.seen : m \in e.by => Covers(h.seen[m], w)
    BY <1>1, AcceptorCovers
<1> QED BY <1>1, <1>2, Zenon DEF SeesWinners

\* A peer's answer is the claim it stores.
LEMMA AnswerSees ==
    ASSUME OwnershipInv, FloorInv, NEW n \in Nodes, NEW m \in Nodes, AskPeer(n, m)
    PROVE  FloorInv'
<1>1. handler[n].at = "asking" /\ won' = won BY Zenon DEF AskPeer
<1>2. PICK h : h = handler[n] BY Zenon
<1>3. SeesWinners(h) /\ "seen" \in DOMAIN h
    BY <1>1, <1>2, Zenon DEF FloorInv, OwnershipInv, Shape, Heard
<1> DEFINE heard == [k \in DOMAIN h.seen \cup {m} |-> IF k = m THEN own[m] ELSE h.seen[k]]
<1>4. CASE Set(n, [h EXCEPT !.asked = @ \cup {m}])
    <2>1. PICK g : g = [h EXCEPT !.asked = @ \cup {m}] BY Zenon
    <2>2. DOMAIN g = DOMAIN h /\ g.seen = h.seen /\ g.floor = h.floor BY <2>1
    <2>3. SeesWinners(g)' BY <1>1, <1>3, <2>2, Zenon DEF SeesWinners
    <2> QED BY <1>1, <1>4, <2>1, <2>3, FloorStep, Zenon
<1>5. ASSUME NEW up, Set(n, [h EXCEPT !.asked = @ \cup {m}, !.seen = heard, !.up = @ \cup up])
      PROVE  FloorInv'
    <2>1. PICK g : g = [h EXCEPT !.asked = @ \cup {m}, !.seen = heard, !.up = @ \cup up] BY Zenon
    <2>2. /\ DOMAIN heard = DOMAIN h.seen \cup {m} /\ heard[m] = own[m]
          /\ \A k \in DOMAIN h.seen : k # m => heard[k] = h.seen[k]
        BY Zenon
    <2> HIDE DEF heard
    <2>3. DOMAIN g = DOMAIN h /\ g.seen = heard /\ g.floor = h.floor BY <1>3, <2>1
    <2>4. ASSUME NEW w \in h.floor
          PROVE  \E e \in won : e.claim = w /\ \A k \in DOMAIN heard : k \in e.by => Covers(heard[k], w)
        <3>1. PICK e \in won : e.claim = w /\ \A k \in DOMAIN h.seen : k \in e.by => Covers(h.seen[k], w)
            BY <1>3, Zenon DEF SeesWinners
        <3>2. m \in e.by => Covers(own[m], w) BY <3>1, AcceptorCovers, Zenon
        <3> QED BY <2>2, <3>1, <3>2, Zenon
    <2>5. SeesWinners(g)' BY <1>1, <1>3, <2>2, <2>3, <2>4, Zenon DEF SeesWinners
    <2> QED BY <1>1, <1>5, <2>1, <2>5, FloorStep, Zenon
<1> QED BY <1>2, <1>4, <1>5, Zenon DEF AskPeer

\* Every other step leaves the queries of the other nodes alone and starts none.
LEMMA NoQuery ==
    ASSUME NEW n \in Nodes,
           \/ RecordControllerOwnershipGrant(n) \/ ObserveGrant(n)
           \/ \E m \in Nodes : ObserveTakeover(n, m) \/ SkipPeer(n, m)
           \/ Resolve(n) \/ Unresolved(n) \/ QueryTimesOut(n) \/ TakeParent(n) \/ RefuseTakeover(n)
           \/ Journal(n) \/ JournalFull(n) \/ Commit(n) \/ TakeoverFails(n) \/ Crash(n)
    PROVE  won \subseteq won' /\ (UNCHANGED handler \/ \E h : h.at # "asking" /\ Set(n, h))
<1>1. CASE RecordControllerOwnershipGrant(n) \/ ObserveGrant(n)
    BY <1>1, Zenon DEF RecordControllerOwnershipGrant, ObserveGrant
<1>2. CASE \/ Resolve(n) \/ Unresolved(n) \/ QueryTimesOut(n) \/ RefuseTakeover(n)
           \/ JournalFull(n) \/ Commit(n) \/ TakeoverFails(n) \/ Crash(n)
    <2>1. won \subseteq won' /\ Set(n, [at |-> "idle"])
        BY <1>2, Zenon DEF Resolve, Unresolved, QueryTimesOut, RefuseTakeover, JournalFull, Commit,
           TakeoverFails, Crash
    <2> QED BY <2>1, Zenon
<1>3. CASE TakeParent(n)
    <2>1. PICK saved \in BOOLEAN :
            Set(n, IF saved THEN [at |-> "journalling",
                                  claim |-> Takeover(n, handler[n].op, handler[n].parent)]
                   ELSE [at |-> "idle"])
        BY <1>3, Zenon DEF TakeParent
    <2>2. won' = won BY <1>3, Zenon DEF TakeParent
    <2> QED BY <2>1, <2>2, Zenon
<1>4. CASE Journal(n)
    <2>1. PICK saved \in BOOLEAN :
            Set(n, IF saved THEN [at |-> "sending", claim |-> handler[n].claim,
                                  asked |-> {n}, acks |-> {n}]
                   ELSE [at |-> "idle"])
        BY <1>4, Zenon DEF Journal
    <2>2. won' = won BY <1>4, Zenon DEF Journal
    <2> QED BY <2>1, <2>2, Zenon
<1>5. ASSUME NEW m \in Nodes, ObserveTakeover(n, m) \/ SkipPeer(n, m)
      PROVE  won' = won /\ \E h : h.at # "asking" /\ Set(n, h)
    <2>1. won' = won /\ handler[n].at = "sending" BY <1>5, Zenon DEF ObserveTakeover, SkipPeer
    <2>2. CASE SkipPeer(n, m)
        <3>1. PICK h : h = [handler[n] EXCEPT !.asked = @ \cup {m}] BY Zenon
        <3>2. h.at = handler[n].at BY <3>1
        <3>3. h.at # "asking" BY <2>1, <3>2
        <3>4. Set(n, h) BY <2>2, <3>1, Zenon DEF SkipPeer
        <3> QED BY <2>1, <3>3, <3>4, Zenon
    <2>3. CASE ObserveTakeover(n, m)
        <3>1. \/ Set(n, [handler[n] EXCEPT !.asked = @ \cup {m}])
              \/ \E acks : Set(n, [handler[n] EXCEPT !.asked = @ \cup {m}, !.acks = acks])
            BY <2>3, Zenon DEF ObserveTakeover
        <3>2. CASE Set(n, [handler[n] EXCEPT !.asked = @ \cup {m}])
            <4>1. PICK h : h = [handler[n] EXCEPT !.asked = @ \cup {m}] BY Zenon
            <4>2. h.at = handler[n].at BY <4>1
            <4>3. h.at # "asking" BY <2>1, <4>2
            <4> QED BY <2>1, <3>2, <4>1, <4>3, Zenon
        <3>3. ASSUME NEW acks, Set(n, [handler[n] EXCEPT !.asked = @ \cup {m}, !.acks = acks])
              PROVE  won' = won /\ \E h : h.at # "asking" /\ Set(n, h)
            <4>1. PICK h : h = [handler[n] EXCEPT !.asked = @ \cup {m}, !.acks = acks] BY Zenon
            <4>2. h.at = handler[n].at BY <4>1
            <4>3. h.at # "asking" BY <2>1, <4>2
            <4> QED BY <2>1, <3>3, <4>1, <4>3, Zenon
        <3> QED BY <3>1, <3>2, <3>3, Zenon
    <2> QED BY <1>5, <2>1, <2>2, <2>3, Zenon
<1> QED BY <1>1, <1>2, <1>3, <1>4, <1>5, Zenon

\* A takeover request asks afresh or goes on from the journal.
LEMMA BeginSees ==
    ASSUME OwnershipInv, FloorInv, NEW n \in Nodes,
           BeginResolve(n) \/ \E o \in Ops : BeginTakeover(n, o)
    PROVE  FloorInv'
<1>1. CASE BeginResolve(n)
    <2>1. PICK h : h = Query(n, NoOp, NoClaim) BY Zenon
    <2>2. won' = won /\ Set(n, h) BY <1>1, <2>1, Zenon DEF BeginResolve
    <2>3. SeesWinners(h)' BY <2>1, <2>2, QuerySees, Zenon
    <2> QED BY <2>2, <2>3, FloorStep, Zenon
<1>2. ASSUME NEW o \in Ops, BeginTakeover(n, o) PROVE FloorInv'
    <2>1. CASE won' = won /\ Set(n, Query(n, o, offered[n]))
        <3>1. PICK p : p = offered[n] BY Zenon
        <3>2. PICK h : h = Query(n, o, p) BY Zenon
        <3>3. SeesWinners(h)' BY <2>1, <3>2, QuerySees, Zenon
        <3> QED BY <2>1, <3>1, <3>2, <3>3, FloorStep, Zenon
    <2>2. CASE UNCHANGED handler /\ won \subseteq won'
        BY <2>2, Zenon DEF FloorInv, SeesWinners
    <2>3. ASSUME NEW e, won' = won,
                 Set(n, [at |-> "sending", claim |-> e.claim, asked |-> {n}, acks |-> {n}])
          PROVE  FloorInv'
        <3>1. PICK h : h = [at |-> "sending", claim |-> e.claim, asked |-> {n}, acks |-> {n}] BY Zenon
        <3>2. h.at # "asking" BY <3>1, Zenon
        <3> QED BY <2>3, <3>1, <3>2, FloorStep, Zenon
    <2> QED BY <1>2, <2>1, <2>2, <2>3, Zenon DEF BeginTakeover
<1> QED BY <1>1, <1>2, Zenon

\* Every step keeps what the queries under way have seen.
LEMMA NextSees ==
    ASSUME OwnershipInv, FloorInv, Next
    PROVE  FloorInv'
<1>1. PICK n \in Nodes :
        \/ RecordControllerOwnershipGrant(n) \/ ObserveGrant(n)
        \/ BeginResolve(n) \/ \E o \in Ops : BeginTakeover(n, o)
        \/ \E m \in Nodes : AskPeer(n, m) \/ ObserveTakeover(n, m) \/ SkipPeer(n, m)
        \/ Resolve(n) \/ Unresolved(n) \/ QueryTimesOut(n) \/ TakeParent(n) \/ RefuseTakeover(n)
        \/ Journal(n) \/ JournalFull(n) \/ Commit(n) \/ TakeoverFails(n) \/ Crash(n)
    BY Zenon DEF Next
<1>2. CASE BeginResolve(n) \/ \E o \in Ops : BeginTakeover(n, o) BY <1>2, BeginSees, Zenon
<1>3. CASE \E m \in Nodes : AskPeer(n, m) BY <1>3, AnswerSees, Zenon
<1>4. CASE /\ won \subseteq won'
           /\ UNCHANGED handler \/ \E h : h.at # "asking" /\ Set(n, h)
    <2>1. CASE UNCHANGED handler BY <1>4, <2>1, Zenon DEF FloorInv, SeesWinners
    <2>2. CASE \E h : h.at # "asking" /\ Set(n, h) BY <1>4, <2>2, FloorStep, Zenon
    <2> QED BY <1>4, <2>1, <2>2, Zenon
<1> QED BY <1>1, <1>2, <1>3, <1>4, NoQuery, Zenon

\* While every save succeeds, a login that started after a takeover was committed
\* is never decided by an older claim, however the answers, the grants and other
\* takeovers interleave: the majority that decides has a node in common with the
\* one that accepted, or is completed by the asking node itself, which takes no
\* claim smaller than its own (queryOwnershipQuorum, applyActivityOwnershipClaim).
THEOREM DecisionsTheorem ==
    ASSUME MaxFailedSaves = 0
    PROVE  Spec => []DecisionsSeeWinners
<1>1. Init => FloorInv BY DEF Init, FloorInv
<1>2. OwnershipInv /\ FloorInv /\ [Next]_vars => FloorInv'
    BY NextSees, Zenon DEF vars, FloorInv, SeesWinners
<1>3. OwnershipInv /\ FloorInv => DecisionsSeeWinners
    <2> SUFFICES ASSUME OwnershipInv, FloorInv, NEW n \in Nodes, handler[n].at = "asking",
                        NEW c \in Claims(handler[n]), NEW w \in handler[n].floor, Resolved(n, c)
                 PROVE  ~Larger(w, c)
        BY Zenon DEF DecisionsSeeWinners
    <2> DEFINE h == handler[n]
               B == Matching(n, h, c)
    <2>1. Ranked(c) BY ClaimsRanked, Zenon
    <2>2. SeesWinners(h) BY Zenon DEF FloorInv
    <2>3. PICK e \in won : e.claim = w /\ \A m \in DOMAIN h.seen : m \in e.by => Covers(h.seen[m], w)
        BY <2>2, Zenon DEF SeesWinners
    <2>4. e.by \subseteq Nodes /\ Cardinality(e.by) >= Required BY Zenon DEF OwnershipInv, Entries
    <2>5. B \subseteq Nodes /\ Cardinality(B) >= Required
        BY <2>2, Zenon DEF Resolved, Matching, SeesWinners
    <2>6. PICK m \in Nodes : m \in e.by /\ m \in B
        BY <2>4, <2>5, MajoritiesMeet, Zenon
    <2>7. Covers(c, w)
        <3>1. CASE m \in DOMAIN h.seen /\ h.seen[m] = c BY <2>3, <2>6, <3>1, Zenon
        <3>2. CASE m = n
            <4>1. Covers(own[n], w) BY <2>3, <2>6, <3>2, AcceptorCovers, Zenon
            <4>2. Grows(own[n], c) BY <2>1, ReplacesGrows, Zenon DEF Resolved
            <4> QED BY <4>1, <4>2, CoversGrows, Zenon
        <3> QED BY <2>6, <3>1, <3>2, Zenon DEF Matching
    <2>8. Ranked(w) BY <2>7, Zenon DEF Covers
    <2> QED BY <2>1, <2>7, <2>8, RankOrder, Zenon DEF Covers, SameRank
<1> QED BY <1>1, <1>2, <1>3, OwnershipInvariant, PTL DEF Spec

===========================================================================
