-------------------------------- MODULE CRDT --------------------------------
(***************************************************************************)
(* The replicated data types of internal/crdt: a grow-only counter with    *)
(* one shard per replica, and a last-writer-wins map that keeps only its   *)
(* newest entries.                                                         *)
(***************************************************************************)
EXTENDS Naturals, FiniteSets

CONSTANTS Replicas,      \* replica ids, naturals: ties between entries compare them
          Jobs,          \* the keys of the map
          Workers,
          None,          \* no entry
          RecentLimit    \* statesvc.go: 50

ASSUME CRDTAssumption ==
  /\ Replicas \subseteq Nat /\ IsFiniteSet(Jobs) /\ RecentLimit \in Nat \ {0}
  /\ None \notin [status : {"succeeded", "failed"}, worker : Workers, ts : Nat, replica : Replicas]

Outcome == {"succeeded", "failed"}

-----------------------------------------------------------------------------
(* GCounter.  A shard that is not in the Go map reads as 0. *)

GCounter == [Replicas -> Nat]

NewGCounter == [r \in Replicas |-> 0]

Inc(c, r) == [c EXCEPT ![r] = @ + 1]

\* Mutant: shards are added up.
MergeBySum(c, d) == [r \in Replicas |-> c[r] + d[r]]

MergeCounter(c, d) == [r \in Replicas |-> IF d[r] > c[r] THEN d[r] ELSE c[r]]

-----------------------------------------------------------------------------
(* LWWMap. *)

LWWEntry == [status : Outcome, worker : Workers, ts : Nat, replica : Replicas]

LWWMap == [Jobs -> LWWEntry \cup {None}]

NewLWWMap == [k \in Jobs |-> None]

\* The keys that are in the Go map.
Keys(m) == {k \in Jobs : m[k] # None}

\* Mutant: ties are left undecided.
WinsByTime(a, b) == a.ts > b.ts

wins(a, b) == a.ts > b.ts \/ (a.ts = b.ts /\ a.replica > b.replica)

\* n's entries over m's, key by key, where they win.
Overlay(m, n) ==
  [k \in Jobs |-> IF k \in Keys(m) /\ (k \in Keys(n) => ~wins(n[k], m[k])) THEN m[k] ELSE n[k]]

Keep(m, K) == [k \in Jobs |-> IF k \in K THEN m[k] ELSE None]

\* Mutant: the newest entries are dropped.
pruneNewest(m) ==
  {Keep(m, K) : K \in {K \in SUBSET Keys(m) :
     /\ Cardinality(K) = IF Cardinality(Keys(m)) > RecentLimit
                         THEN RecentLimit ELSE Cardinality(Keys(m))
     /\ \A k \in K : \A d \in Keys(m) \ K : ~wins(m[k], m[d])}}

\* Mutant: nothing is.
pruneNothing(m) == {m}

\* What prune() may leave of m: it deletes an oldest entry until the limit is
\* met, and the map's iteration order decides between entries of equal age.
prune(m) ==
  {Keep(m, K) : K \in {K \in SUBSET Keys(m) :
     /\ Cardinality(K) = IF Cardinality(Keys(m)) > RecentLimit
                         THEN RecentLimit ELSE Cardinality(Keys(m))
     /\ \A k \in K : \A d \in Keys(m) \ K : ~wins(m[d], m[k])}}

\* Set, and the LWWMap's Merge: the maps they may produce.
Set(m, key, e) ==
  IF key \in Keys(m) /\ ~wins(e, m[key]) THEN {m} ELSE prune([m EXCEPT ![key] = e])

MergeMap(m, n) == prune(Overlay(m, n))
=============================================================================
