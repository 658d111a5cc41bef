---------------------------- MODULE WalletTree ----------------------------
(***************************************************************************)
(* What the wallet's database promises: a tree of buckets, each with its   *)
(* own keys, changed by one write transaction at a time that is seen by    *)
(* nobody else until it commits (src/poc/wallet/db/db.go).                 *)
(***************************************************************************)
EXTENDS Naturals, Sequences, SequencesExt

CONSTANTS Paths, Keys, Values

VARIABLES
    committed,      \* [buckets, data]: what a read transaction sees
    working         \* the same of the open write transaction: one tree or none

treeVars == <<committed, working>>

Within(p, q) == IsPrefix(p, q)

TreeInit ==
    /\ committed = [buckets |-> {}, data |-> {}]
    /\ working = {}

TreeBegin == working = {} /\ working' = {committed} /\ UNCHANGED committed

\* What one call may make of a tree t.  A bucket is made in one that exists
\* and begins empty; it goes with everything under it and nothing else.
NewBucket(t, u) ==
    \E p \in Paths \ t.buckets :
        /\ Len(p) > 1 => Front(p) \in t.buckets
        /\ ~\E e \in t.data : e[1] = p
        /\ u = [t EXCEPT !.buckets = @ \cup {p}]

Others(t, p, k) == {e \in t.data : ~(e[1] = p /\ e[2] = k)}

Put(t, u) ==
    \E p \in t.buckets, k \in Keys, v \in Values :
        u = [t EXCEPT !.data = Others(t, p, k) \cup {<<p, k, v>>}]

Delete(t, u) ==
    \E p \in t.buckets, k \in Keys : u = [t EXCEPT !.data = Others(t, p, k)]

Clear(t, u) ==
    \E p \in t.buckets : u = [t EXCEPT !.data = {e \in @ : e[1] # p}]

\* A bucket of the top level stays.
DeleteBucket(t, u) ==
    \E p \in t.buckets :
        /\ Len(p) > 1
        /\ u = [buckets |-> {q \in t.buckets : ~Within(p, q)},
                data |-> {e \in t.data : ~Within(p, e[1])}]

TreeWrite ==
    /\ \E t \in working, u \in working' :
          /\ working' = {u}
          /\ NewBucket(t, u) \/ Put(t, u) \/ Delete(t, u) \/ Clear(t, u) \/ DeleteBucket(t, u)
    /\ UNCHANGED committed

TreeCommit ==
    /\ \E t \in working : committed' = t
    /\ working' = {}

TreeRollback == working # {} /\ working' = {} /\ UNCHANGED committed

TreeNext == TreeBegin \/ TreeWrite \/ TreeCommit \/ TreeRollback

TreeSpec == TreeInit /\ [][TreeNext]_treeVars
===========================================================================
