----------------------- MODULE StateManagerInvariant ------------------------
(***************************************************************************)
(* The inductive invariant of the statemanager, what the operations on its *)
(* data types return, and that merging a state, serving a report, a switch *)
(* of gossip and a restart keep the invariant.                             *)
(***************************************************************************)
EXTENDS StateManager, FiniteSetTheorems, TLAPS

\* Merging a counter with itself changes nothing, the order of two merges does
\* not matter, and neither does their grouping (crdt.go: "Merge is commutative,
\* associative, and idempotent").
THEOREM MergeLaws ==
  ASSUME NEW c \in GCounter, NEW d \in GCounter, NEW e \in GCounter
  PROVE  /\ MergeCounter(c, c) = c
         /\ MergeCounter(c, d) = MergeCounter(d, c)
         /\ MergeCounter(MergeCounter(c, d), e) = MergeCounter(c, MergeCounter(d, e))
<1>1. \A r \in Replicas : c[r] \in Nat /\ d[r] \in Nat /\ e[r] \in Nat
  BY DEF GCounter
<1>2. MergeCounter(c, c) = c
  BY <1>1 DEF GCounter, MergeCounter
<1>3. MergeCounter(c, d) = MergeCounter(d, c)
  BY <1>1 DEF MergeCounter
<1>4. MergeCounter(MergeCounter(c, d), e) = MergeCounter(c, MergeCounter(d, e))
  BY <1>1 DEF MergeCounter
<1> QED BY <1>2, <1>3, <1>4

-----------------------------------------------------------------------------
(* What the operations on the data types return. *)

\* prune leaves a map of at most RecentLimit entries.
LEMMA PruneTypes ==
  ASSUME NEW m \in LWWMap, NEW p \in prune(m)
  PROVE  p \in LWWMap /\ Cardinality(Keys(p)) <= RecentLimit
<1>1. PICK K \in SUBSET Keys(m) :
        /\ p = Keep(m, K)
        /\ Cardinality(K) = IF Cardinality(Keys(m)) > RecentLimit
                            THEN RecentLimit ELSE Cardinality(Keys(m))
  BY DEF prune
<1>2. p \in LWWMap
  BY <1>1 DEF Keep, LWWMap
<1>3. Keys(p) = K
  BY <1>1 DEF Keep, Keys
<1>4. Cardinality(Keys(m)) \in Nat
  <2>1. IsFiniteSet(Jobs) /\ Keys(m) \subseteq Jobs
    BY CRDTAssumption DEF Keys
  <2> QED BY <2>1, FS_Subset, FS_CardinalityType
<1> QED BY <1>1, <1>2, <1>3, <1>4, CRDTAssumption

\* A map that Set returns is well typed and within the limit.
LEMMA SetTypes ==
  ASSUME NEW m \in LWWMap, Cardinality(Keys(m)) <= RecentLimit,
         NEW j \in Jobs, NEW e \in LWWEntry, NEW p \in Set(m, j, e)
  PROVE  p \in LWWMap /\ Cardinality(Keys(p)) <= RecentLimit
<1>1. [m EXCEPT ![j] = e] \in LWWMap
  BY DEF LWWMap
<1> QED BY <1>1, PruneTypes DEF Set

\* Merging two maps returns one that is well typed and within the limit.
LEMMA MergeMapTypes ==
  ASSUME NEW m \in LWWMap, NEW n \in LWWMap, NEW p \in MergeMap(m, n)
  PROVE  p \in LWWMap /\ Cardinality(Keys(p)) <= RecentLimit
<1>1. Overlay(m, n) \in LWWMap
  BY DEF LWWMap, Overlay
<1> QED BY <1>1, PruneTypes DEF MergeMap

\* Merging tables of counters, entry by entry, takes each shard from one side and
\* never the smaller one.
LEMMA MergeCountersSound ==
  ASSUME NEW S, NEW m \in [S -> GCounter], NEW n \in [S -> GCounter]
  PROVE  /\ mergeCounters(m, n) \in [S -> GCounter]
         /\ \A k \in S : \A r \in Replicas :
              /\ mergeCounters(m, n)[k][r] \in {m[k][r], n[k][r]}
              /\ mergeCounters(m, n)[k][r] >= m[k][r]
<1>1. \A k \in S : \A r \in Replicas : m[k][r] \in Nat /\ n[k][r] \in Nat
  BY DEF GCounter
<1>2. mergeCounters(m, n) = [k \in S |-> MergeCounter(m[k], n[k])]
  BY DEF mergeCounters
<1>3. \A k \in S : MergeCounter(m[k], n[k]) \in GCounter
  BY <1>1 DEF MergeCounter, GCounter
<1>4. ASSUME NEW k \in S, NEW r \in Replicas
      PROVE  /\ MergeCounter(m[k], n[k])[r] \in {m[k][r], n[k][r]}
             /\ MergeCounter(m[k], n[k])[r] >= m[k][r]
  BY <1>1 DEF MergeCounter
<1> QED BY <1>2, <1>3, <1>4

\* What replica r holds after merging a state t: well typed, within the limit, and
\* every shard of every status counter is the larger of the two it came from.
LEMMA MergeLockedSound ==
  ASSUME NEW s \in CRDTState, NEW t \in CRDTState, NEW u \in mergeLocked(s, t)
  PROVE  /\ u \in CRDTState
         /\ Cardinality(Keys(u.recent)) <= RecentLimit
         /\ \A o \in Outcome : \A r \in Replicas :
              /\ u.byStatus[o][r] \in {s.byStatus[o][r], t.byStatus[o][r]}
              /\ u.byStatus[o][r] >= s.byStatus[o][r]
<1>1. PICK m \in MergeMap(s.recent, t.recent) :
        u = [byStatus |-> mergeCounters(s.byStatus, t.byStatus),
             byWorker |-> mergeCounters(s.byWorker, t.byWorker),
             recent   |-> m]
  BY DEF mergeLocked
<1>2. /\ s.byStatus \in [Outcome -> GCounter] /\ t.byStatus \in [Outcome -> GCounter]
      /\ s.byWorker \in [Workers -> GCounter] /\ t.byWorker \in [Workers -> GCounter]
      /\ s.recent \in LWWMap /\ t.recent \in LWWMap
  BY DEF CRDTState
<1>3. m \in LWWMap /\ Cardinality(Keys(m)) <= RecentLimit
  BY <1>2, MergeMapTypes
<1>4. /\ mergeCounters(s.byStatus, t.byStatus) \in [Outcome -> GCounter]
      /\ \A k \in Outcome : \A r \in Replicas :
           /\ mergeCounters(s.byStatus, t.byStatus)[k][r] \in {s.byStatus[k][r], t.byStatus[k][r]}
           /\ mergeCounters(s.byStatus, t.byStatus)[k][r] >= s.byStatus[k][r]
  BY <1>2, MergeCountersSound
<1>5. mergeCounters(s.byWorker, t.byWorker) \in [Workers -> GCounter]
  BY <1>2, MergeCountersSound
<1> QED BY <1>1, <1>3, <1>4, <1>5 DEF CRDTState

-----------------------------------------------------------------------------
(* The window of recent outcomes. *)

\* wins is a strict order, and so is not losing, up to ties.
LEMMA WinsOrder ==
  ASSUME NEW a \in LWWEntry, NEW b \in LWWEntry, NEW c \in LWWEntry
  PROVE  /\ ~wins(a, a)
         /\ wins(a, b) => ~wins(b, a)
         /\ ~wins(a, b) /\ ~wins(b, c) => ~wins(a, c)
<1>1. /\ a.ts \in Nat /\ b.ts \in Nat /\ c.ts \in Nat
      /\ a.replica \in Nat /\ b.replica \in Nat /\ c.replica \in Nat
  BY CRDTAssumption, Zenon DEF LWWEntry
<1> QED BY <1>1 DEF wins

\* The keys of a map are finitely many.
LEMMA KeysFinite ==
  ASSUME NEW m, NEW K \in SUBSET Keys(m)
  PROVE  /\ IsFiniteSet(Keys(m)) /\ Cardinality(Keys(m)) \in Nat
         /\ IsFiniteSet(K) /\ Cardinality(K) \in Nat
         /\ Cardinality(K) <= Cardinality(Keys(m))
         /\ Cardinality(K) = Cardinality(Keys(m)) => K = Keys(m)
<1>1. IsFiniteSet(Keys(m))
  <2>1. IsFiniteSet(Jobs) /\ Keys(m) \subseteq Jobs
    BY CRDTAssumption DEF Keys
  <2> QED BY <2>1, FS_Subset
<1> QED BY <1>1, FS_Subset, FS_CardinalityType

\* What the window m of a replica owes to the set S of entries it was told of.
Newest(m, S) ==
  /\ Entries(m) \subseteq S
  /\ \A x \in S :
       IF x[1] \in Keys(m) THEN ~wins(x[2], m[x[1]])
       ELSE /\ Cardinality(Keys(m)) = RecentLimit
            /\ \A k \in Keys(m) : ~wins(x[2], m[k])

\* What prune leaves is as much as the limit allows, and no entry it drops wins
\* against one it keeps.
LEMMA PruneKeeps ==
  ASSUME NEW o \in LWWMap, NEW p \in prune(o)
  PROVE  /\ Keys(p) \subseteq Keys(o)
         /\ \A k \in Keys(p) : p[k] = o[k]
         /\ \A d \in Keys(o) \ Keys(p) :
              /\ Cardinality(Keys(p)) = RecentLimit
              /\ \A k \in Keys(p) : ~wins(o[d], p[k])
         /\ Cardinality(Keys(o)) >= RecentLimit => Cardinality(Keys(p)) = RecentLimit
<1>1. PICK K \in SUBSET Keys(o) :
        /\ p = Keep(o, K)
        /\ Cardinality(K) = IF Cardinality(Keys(o)) > RecentLimit
                            THEN RecentLimit ELSE Cardinality(Keys(o))
        /\ \A k \in K : \A d \in Keys(o) \ K : ~wins(o[d], o[k])
  BY DEF prune
<1>2. Keys(p) = K /\ \A k \in K : p[k] = o[k]
  BY <1>1 DEF Keep, Keys
<1>3. /\ Cardinality(Keys(o)) \in Nat /\ Cardinality(K) \in Nat /\ RecentLimit \in Nat
      /\ Cardinality(K) = Cardinality(Keys(o)) => K = Keys(o)
  BY KeysFinite, CRDTAssumption
<1>4. Cardinality(Keys(o)) >= RecentLimit => Cardinality(K) = RecentLimit
  BY <1>1, <1>3
<1>5. Keys(o) \ K # {} => Cardinality(K) = RecentLimit
  BY <1>1, <1>3
<1> QED BY <1>1, <1>2, <1>4, <1>5

\* An overlay has the keys of both maps, and its entries lose against neither.
LEMMA OverlayKeeps ==
  ASSUME NEW m \in LWWMap, NEW n \in LWWMap
  PROVE  /\ Overlay(m, n) \in LWWMap
         /\ Keys(Overlay(m, n)) = Keys(m) \cup Keys(n)
         /\ Entries(Overlay(m, n)) \subseteq Entries(m) \cup Entries(n)
         /\ \A k \in Keys(m) : ~wins(m[k], Overlay(m, n)[k])
         /\ \A k \in Keys(n) : ~wins(n[k], Overlay(m, n)[k])
<1> DEFINE o == Overlay(m, n)
<1>1. /\ \A k \in Keys(m) : k \in Jobs /\ m[k] \in LWWEntry
      /\ \A k \in Keys(n) : k \in Jobs /\ n[k] \in LWWEntry
      /\ \A k \in Jobs : (k \in Keys(m) <=> m[k] # None) /\ (k \in Keys(n) <=> n[k] # None)
  BY DEF Keys, LWWMap
<1>2. \A k \in Jobs : o[k] = IF k \in Keys(m) /\ (k \in Keys(n) => ~wins(n[k], m[k]))
                             THEN m[k] ELSE n[k]
  BY DEF Overlay
<1>3. o \in LWWMap
  BY DEF LWWMap, Overlay
<1>4. Keys(o) = Keys(m) \cup Keys(n)
  BY <1>1, <1>2 DEF Keys
<1>5. Entries(o) \subseteq Entries(m) \cup Entries(n)
  BY <1>1, <1>2, <1>4 DEF Entries
<1>6. ASSUME NEW k \in Keys(m) PROVE ~wins(m[k], o[k])
  BY <1>1, <1>2, WinsOrder
<1>7. ASSUME NEW k \in Keys(n) PROVE ~wins(n[k], o[k])
  BY <1>1, <1>2, WinsOrder
<1> QED BY <1>3, <1>4, <1>5, <1>6, <1>7

\* Merging keeps the window the newest of all that was told.
LEMMA MergeKeepsNewest ==
  ASSUME NEW m \in LWWMap, NEW n \in LWWMap, NEW S \in SUBSET (Jobs \X LWWEntry),
         Newest(m, S), NEW p \in MergeMap(m, n)
  PROVE  Newest(p, S \cup Entries(n))
<1> DEFINE o == Overlay(m, n)
<1>1. /\ o \in LWWMap
      /\ Keys(o) = Keys(m) \cup Keys(n)
      /\ Entries(o) \subseteq Entries(m) \cup Entries(n)
      /\ \A k \in Keys(m) : ~wins(m[k], o[k])
      /\ \A k \in Keys(n) : ~wins(n[k], o[k])
  BY OverlayKeeps
<1>2. p \in prune(o)
  BY DEF MergeMap
<1> HIDE DEF o
<1>3. /\ Keys(p) \subseteq Keys(o)
      /\ \A k \in Keys(p) : p[k] = o[k]
      /\ \A d \in Keys(o) \ Keys(p) :
           /\ Cardinality(Keys(p)) = RecentLimit
           /\ \A k \in Keys(p) : ~wins(o[d], p[k])
      /\ Cardinality(Keys(o)) >= RecentLimit => Cardinality(Keys(p)) = RecentLimit
  BY <1>1, <1>2, PruneKeeps, Zenon
<1>4. /\ \A k \in Keys(o) : o[k] \in LWWEntry
      /\ \A k \in Keys(m) : m[k] \in LWWEntry
      /\ \A k \in Keys(n) : n[k] \in LWWEntry
  BY <1>1 DEF Keys, LWWMap
<1>5. Entries(p) \subseteq S \cup Entries(n)
  <2>1. Entries(p) \subseteq Entries(o)
    BY <1>3 DEF Entries
  <2> QED BY <1>1, <2>1 DEF Newest
\* An entry that does not win against the one its job has in o.
<1>6. ASSUME NEW j \in Keys(o), NEW e \in LWWEntry, ~wins(e, o[j])
      PROVE  IF j \in Keys(p) THEN ~wins(e, p[j])
             ELSE /\ Cardinality(Keys(p)) = RecentLimit
                  /\ \A k \in Keys(p) : ~wins(e, p[k])
  <2>1. CASE j \in Keys(p)
    BY <1>3, <1>6, <2>1
  <2>2. CASE j \notin Keys(p)
    <3>1. Cardinality(Keys(p)) = RecentLimit
      BY <1>3, <2>2
    <3>2. ASSUME NEW k \in Keys(p) PROVE ~wins(e, p[k])
      BY <1>3, <1>4, <1>6, <2>2, WinsOrder
    <3> QED BY <2>2, <3>1, <3>2
  <2> QED BY <2>1, <2>2
\* An entry that a full window had no room for.
<1>7. ASSUME NEW e \in LWWEntry, Cardinality(Keys(m)) = RecentLimit,
             \A k \in Keys(m) : ~wins(e, m[k])
      PROVE  /\ Cardinality(Keys(p)) = RecentLimit
             /\ \A k \in Keys(p) : ~wins(e, p[k])
  <2>1. Cardinality(Keys(p)) = RecentLimit
    <3>1. Cardinality(Keys(m)) <= Cardinality(Keys(o))
      BY <1>1, KeysFinite, Zenon
    <3> QED BY <1>3, <1>7, <3>1
  <2>2. \A k \in Keys(m) : ~wins(e, o[k])
    BY <1>1, <1>4, <1>7, WinsOrder
  <2>3. ASSUME NEW k \in Keys(p) \ Keys(m) PROVE ~wins(e, p[k])
    <3>1. PICK d \in Keys(m) : d \notin Keys(p)
      <4>1. ~(Keys(m) \subseteq Keys(p))
        <5>1. SUFFICES ASSUME Keys(m) \subseteq Keys(p) PROVE Keys(m) = Keys(p)
          BY <2>3
        <5> QED BY <1>7, <2>1, <5>1, KeysFinite
      <4> QED BY <4>1
    <3>2. d \in Keys(o) /\ ~wins(o[d], p[k]) /\ ~wins(e, o[d])
      BY <1>1, <1>3, <2>2, <3>1
    <3> QED BY <1>3, <1>4, <3>2, WinsOrder
  <2> QED BY <1>3, <2>1, <2>2, <2>3
<1>8. ASSUME NEW x \in S \cup Entries(n)
      PROVE  IF x[1] \in Keys(p) THEN ~wins(x[2], p[x[1]])
             ELSE /\ Cardinality(Keys(p)) = RecentLimit
                  /\ \A k \in Keys(p) : ~wins(x[2], p[k])
  <2>1. CASE x \in Entries(n)
    <3>1. x[1] \in Keys(n) /\ x[2] = n[x[1]]
      BY <2>1 DEF Entries
    <3>2. x[1] \in Keys(o) /\ x[2] \in LWWEntry /\ ~wins(x[2], o[x[1]])
      BY <1>1, <1>4, <3>1
    <3> QED BY <1>6, <3>2
  <2>2. CASE x \in S /\ x[1] \in Keys(m)
    <3>1. x[2] \in LWWEntry /\ ~wins(x[2], m[x[1]])
      BY <2>2 DEF Newest
    <3>2. x[1] \in Keys(o) /\ ~wins(x[2], o[x[1]])
      BY <1>1, <1>4, <2>2, <3>1, WinsOrder
    <3> QED BY <1>6, <3>1, <3>2
  <2>3. CASE x \in S /\ x[1] \notin Keys(m)
    <3>1. /\ x[2] \in LWWEntry /\ Cardinality(Keys(m)) = RecentLimit
          /\ \A k \in Keys(m) : ~wins(x[2], m[k])
      BY <2>3 DEF Newest
    <3> QED BY <1>7, <3>1
  <2> QED BY <2>1, <2>2, <2>3
<1> QED BY <1>5, <1>8 DEF Newest

\* So does Set.
LEMMA SetKeepsNewest ==
  ASSUME NEW m \in LWWMap, NEW S \in SUBSET (Jobs \X LWWEntry), Newest(m, S),
         NEW j \in Jobs, NEW e \in LWWEntry, NEW p \in Set(m, j, e)
  PROVE  Newest(p, S \cup {<<j, e>>})
<1> DEFINE n == [k \in Jobs |-> IF k = j THEN e ELSE None]
<1>1. n \in LWWMap /\ e # None
  BY CRDTAssumption DEF LWWMap, LWWEntry, Outcome
<1>2. Keys(n) = {j} /\ n[j] = e
  BY <1>1 DEF Keys
<1>3. Entries(n) = {<<j, e>>}
  BY <1>2, Zenon DEF Entries
<1>4. CASE j \in Keys(m) /\ ~wins(e, m[j])
  <2>1. p = m
    BY <1>4 DEF Set
  <2> QED BY <1>4, <2>1 DEF Newest
<1>5. CASE ~(j \in Keys(m) /\ ~wins(e, m[j]))
  <2>1. p \in prune([m EXCEPT ![j] = e])
    BY <1>5 DEF Set
  <2>2. [m EXCEPT ![j] = e] = Overlay(m, n)
    BY <1>1, <1>2, <1>5, Zenon DEF Overlay, Keys, LWWMap
  <2>3. p \in MergeMap(m, n)
    BY <2>1, <2>2 DEF MergeMap
  <2> HIDE DEF n
  <2>4. Newest(p, S \cup Entries(n))
    BY <1>1, <2>3, MergeKeepsNewest
  <2> QED BY <1>3, <2>4
<1> QED BY <1>4, <1>5

-----------------------------------------------------------------------------
(* The inductive invariant. *)

\* A state, held or on its way, counts no more than was served.
Faithful(s) ==
  \A o \in Outcome : \A r \in Replicas : s.byStatus[o][r] <= ingested[r][o]

\* So do the snapshots in flight, however old they are.
WiresFaithful ==
  /\ \A r \in Replicas : wire[r] # Idle => Faithful(wire[r].state)
  /\ \A c \in late : Faithful(c.state)

\* A replica that never lost its state counts its own reports exactly.
OwnShardExact ==
  \A r \in Replicas \ restarted : \A o \in Outcome : state[r].byStatus[o][r] = ingested[r][o]

IInv == TypeOK /\ NeverOvercounts /\ WiresFaithful /\ OwnShardExact

\* The entries of a well-typed map.
LEMMA EntriesType ==
  ASSUME NEW m \in LWWMap
  PROVE  Entries(m) \in SUBSET (Jobs \X LWWEntry)
<1>1. \A k \in Keys(m) : k \in Jobs /\ m[k] \in LWWEntry
  BY DEF Keys, LWWMap
<1> QED BY <1>1 DEF Entries

\* An open call is a request or a response with a well-typed state.
LEMMA WireType ==
  ASSUME TypeOK, NEW r \in Replicas, wire[r] # Idle
  PROVE  wire[r] \in Request \cup Response /\ wire[r].to \in Replicas /\ wire[r].state \in CRDTState
<1>1. wire[r] \in Request \cup Response
  BY DEF TypeOK
<1> QED BY <1>1 DEF Request, Response

\* A request that outlives its caller is one that was on the wire.
LEMMA LeftBehindSound ==
  ASSUME IInv, NEW r \in Replicas, NEW L \in LeftBehind(wire[r])
  PROVE  L \subseteq Request /\ \A c \in L : Faithful(c.state)
<1>1. CASE L = late
  BY <1>1 DEF IInv, TypeOK, WiresFaithful
<1>2. CASE L # late
  <2>1. L = late \cup {wire[r]} /\ wire[r].phase = "request"
    BY <1>2 DEF LeftBehind
  <2>2. wire[r] # Idle
    BY <2>1 DEF Idle
  <2>3. wire[r] \in Request
    BY <2>1, <2>2, WireType DEF IInv, Request, Response
  <2> QED BY <2>1, <2>2, <2>3 DEF IInv, TypeOK, WiresFaithful
<1> QED BY <1>1, <1>2

\* A step that counts one fault stays within their bound.
LEMMA FaultBounded ==
  ASSUME TypeOK, NEW kind, Fault(kind)
  PROVE  faults' \in 0..MaxFaults
<1>1. faults < MaxFaults /\ faults' = faults + 1
  BY DEF Fault
<1>2. faults \in 0..MaxFaults
  BY DEF TypeOK
<1> QED BY <1>1, <1>2, StateManagerAssumption

\* mergeLocked keeps the invariant's facts about the data, for any faithful state
\* received, old or new.
LEMMA AbsorbSound ==
  ASSUME IInv, NEW r \in Replicas, NEW t \in CRDTState, Faithful(t), Absorb(r, t),
         UNCHANGED <<ingested, restarted>>
  PROVE  /\ state' \in [Replicas -> CRDTState]
         /\ \A q \in Replicas : Cardinality(Keys(state'[q].recent)) <= RecentLimit
         /\ seen' \in [Replicas -> SUBSET (Jobs \X LWWEntry)]
         /\ NeverOvercounts' /\ OwnShardExact'
         /\ Faithful(state[r])' /\ state'[r] \in CRDTState
<1>1. PICK s \in mergeLocked(state[r], t) : state' = [state EXCEPT ![r] = s]
  BY Zenon DEF Absorb
<1>2. state[r] \in CRDTState /\ state \in [Replicas -> CRDTState]
  BY DEF IInv, TypeOK
<1>3. /\ s \in CRDTState
      /\ Cardinality(Keys(s.recent)) <= RecentLimit
      /\ \A o \in Outcome : \A q \in Replicas :
           /\ s.byStatus[o][q] \in {state[r].byStatus[o][q], t.byStatus[o][q]}
           /\ s.byStatus[o][q] >= state[r].byStatus[o][q]
  BY <1>2, MergeLockedSound
<1>4. state' \in [Replicas -> CRDTState]
  BY <1>1, <1>2, <1>3
<1>5. \A q \in Replicas : Cardinality(Keys(state'[q].recent)) <= RecentLimit
  BY <1>1, <1>2, <1>3 DEF IInv, TypeOK
<1>6. seen' \in [Replicas -> SUBSET (Jobs \X LWWEntry)]
  <2>1. t.recent \in LWWMap
    BY DEF CRDTState
  <2> QED BY <2>1, EntriesType DEF IInv, TypeOK, Absorb
<1>7. \A o \in Outcome : \A q \in Replicas : s.byStatus[o][q] <= ingested[q][o]
  BY <1>3 DEF IInv, NeverOvercounts, Faithful
<1>8. NeverOvercounts'
  BY <1>1, <1>2, <1>7 DEF IInv, NeverOvercounts
<1>9. OwnShardExact'
  <2>1. \A o \in Outcome : r \notin restarted => s.byStatus[o][r] = ingested[r][o]
    <3>1. SUFFICES ASSUME NEW o \in Outcome, r \notin restarted
                   PROVE  s.byStatus[o][r] = ingested[r][o]
      OBVIOUS
    <3>2. /\ s.byStatus[o][r] <= ingested[r][o]
          /\ s.byStatus[o][r] >= ingested[r][o]
      BY <1>3, <1>7, <3>1 DEF IInv, OwnShardExact
    <3>3. ingested[r][o] \in Nat /\ s.byStatus[o][r] \in Nat
      BY <1>3 DEF IInv, TypeOK, CRDTState, GCounter
    <3> QED BY <3>2, <3>3
  <2> QED BY <1>1, <1>2, <2>1 DEF IInv, OwnShardExact
<1>10. Faithful(state[r])'
  BY <1>8 DEF NeverOvercounts, Faithful
<1> QED BY <1>4, <1>5, <1>6, <1>8, <1>9, <1>10

-----------------------------------------------------------------------------
\* The invariant holds when all replicas have just started.
LEMMA InitIInv == Init => IInv
<1> SUFFICES ASSUME Init PROVE IInv
  OBVIOUS
<1>1. NewGCounter \in GCounter /\ NewLWWMap \in LWWMap /\ Keys(NewLWWMap) = {}
  BY DEF NewGCounter, GCounter, NewLWWMap, LWWMap, Keys
<1>2. Empty \in CRDTState /\ Keys(Empty.recent) = {}
  BY <1>1 DEF Empty, CRDTState
<1>3. Cardinality({}) = 0
  BY FS_EmptySet
<1>4. TypeOK
  <2>1. \A r \in Replicas : Cardinality(Keys(state[r].recent)) <= RecentLimit
    BY <1>2, <1>3, CRDTAssumption DEF Init
  <2>2. faults \in 0..MaxFaults /\ reports \in 0..MaxReports
    BY StateManagerAssumption DEF Init
  <2>3. state \in [Replicas -> CRDTState] /\ gossipOn \in [Replicas -> BOOLEAN]
    BY <1>2 DEF Init
  <2>4. seen \in [Replicas -> SUBSET (Jobs \X LWWEntry)] /\ todo \in [Replicas -> SUBSET Replicas]
    BY DEF Init
  <2>5. ingested \in [Replicas -> [Outcome -> Nat]]
    BY DEF Init
  <2> QED BY <2>1, <2>2, <2>3, <2>4, <2>5 DEF Init, TypeOK
<1>5. \A o \in Outcome : \A r \in Replicas : Empty.byStatus[o][r] = 0
  BY DEF Empty, NewGCounter
<1> QED BY <1>4, <1>5 DEF Init, IInv, NeverOvercounts, WiresFaithful, OwnShardExact

\* A report raises its replica's own shard and the number it served together.
LEMMA ReportPreserves ==
  ASSUME IInv, NEW r \in Replicas, NEW j \in Jobs, NEW w \in Workers, NEW o \in Outcome,
         NEW ts \in Clock[r], ReportJobEvent(r, j, w, o, ts)
  PROVE  IInv'
<1> DEFINE e == [status |-> o, worker |-> w, ts |-> ts, replica |-> r]
<1>1. PICK m \in Set(state[r].recent, j, e) :
        state' = [state EXCEPT ![r] =
          [byStatus |-> [state[r].byStatus EXCEPT ![o] = Inc(@, r)],
           byWorker |-> [state[r].byWorker EXCEPT ![w] = Inc(@, r)],
           recent   |-> m]]
  BY Zenon DEF ReportJobEvent
<1>2. e \in LWWEntry
  BY StateManagerAssumption DEF LWWEntry
<1>3. /\ state \in [Replicas -> CRDTState] /\ state[r] \in CRDTState
      /\ state[r].recent \in LWWMap /\ Cardinality(Keys(state[r].recent)) <= RecentLimit
      /\ state[r].byStatus \in [Outcome -> GCounter] /\ state[r].byWorker \in [Workers -> GCounter]
  BY DEF IInv, TypeOK, CRDTState
<1>4. m \in LWWMap /\ Cardinality(Keys(m)) <= RecentLimit
  BY <1>2, <1>3, SetTypes
<1> HIDE DEF e
<1>5. \A c \in GCounter : /\ Inc(c, r) \in GCounter
                          /\ Inc(c, r)[r] = c[r] + 1
                          /\ \A q \in Replicas \ {r} : Inc(c, r)[q] = c[q]
  BY DEF GCounter, Inc
<1> DEFINE s == [byStatus |-> [state[r].byStatus EXCEPT ![o] = Inc(@, r)],
                 byWorker |-> [state[r].byWorker EXCEPT ![w] = Inc(@, r)],
                 recent   |-> m]
<1>6. state' = [state EXCEPT ![r] = s]
  BY <1>1, SMTT(20)
<1>7. s \in CRDTState /\ s.recent = m
  BY <1>3, <1>4, <1>5, ZenonT(30) DEF CRDTState
<1>8. \A p \in Outcome : \A q \in Replicas :
        s.byStatus[p][q] = IF p = o /\ q = r THEN state[r].byStatus[p][q] + 1
                                             ELSE state[r].byStatus[p][q]
  <2> SUFFICES ASSUME NEW p \in Outcome, NEW q \in Replicas
               PROVE  s.byStatus[p][q] = IF p = o /\ q = r THEN state[r].byStatus[p][q] + 1
                                                           ELSE state[r].byStatus[p][q]
    BY Zenon
  <2>1. s.byStatus[p] = IF p = o THEN Inc(state[r].byStatus[p], r) ELSE state[r].byStatus[p]
    BY <1>3
  <2>2. state[r].byStatus[p] \in GCounter
    BY <1>3
  <2> QED BY <1>5, <2>1, <2>2
<1> HIDE DEF s
<1>9. ingested' = [ingested EXCEPT ![r][o] = @ + 1] /\ ingested \in [Replicas -> [Outcome -> Nat]]
  BY DEF ReportJobEvent, IInv, TypeOK
<1>10. \A p \in Outcome : \A q \in Replicas :
         /\ ingested'[q][p] = IF p = o /\ q = r THEN ingested[q][p] + 1 ELSE ingested[q][p]
         /\ ingested[q][p] \in Nat /\ ingested'[q][p] \in Nat /\ ingested'[q][p] >= ingested[q][p]
  BY <1>9
<1>11. \A t \in CRDTState : \A p \in Outcome : \A q \in Replicas : t.byStatus[p][q] \in Nat
  BY DEF CRDTState, GCounter
<1>12. \A t \in CRDTState : Faithful(t) => Faithful(t)'
  BY <1>10, <1>11, SMTT(20) DEF Faithful
<1>13. TypeOK'
  <2>1. state' \in [Replicas -> CRDTState]
    BY <1>3, <1>6, <1>7, ZenonT(30)
  <2>2. \A q \in Replicas : Cardinality(Keys(state'[q].recent)) <= RecentLimit
    BY <1>3, <1>4, <1>6, <1>7 DEF IInv, TypeOK
  <2>3. seen' \in [Replicas -> SUBSET (Jobs \X LWWEntry)]
    BY <1>2 DEF ReportJobEvent, IInv, TypeOK, e
  <2>4. ingested' \in [Replicas -> [Outcome -> Nat]]
    BY <1>9
  <2>5. reports' \in 0..MaxReports
    <3>1. reports < MaxReports /\ reports' = reports + 1
      BY DEF ReportJobEvent
    <3>2. reports \in 0..MaxReports
      BY DEF IInv, TypeOK
    <3> QED BY <3>1, <3>2, StateManagerAssumption
  <2> QED BY <2>1, <2>2, <2>3, <2>4, <2>5, ZenonT(30) DEF ReportJobEvent, IInv, TypeOK, roundVars
<1>14. NeverOvercounts'
  <2>1. \A p \in Outcome : \A q \in Replicas : s.byStatus[p][q] <= ingested'[q][p]
    BY <1>3, <1>8, <1>10, <1>11 DEF IInv, NeverOvercounts
  <2>2. \A n \in Replicas \ {r} : \A p \in Outcome : \A q \in Replicas :
          state[n].byStatus[p][q] <= ingested'[q][p]
    BY <1>3, <1>10, <1>11 DEF IInv, NeverOvercounts
  <2> QED BY <1>3, <1>6, <2>1, <2>2, ZenonT(30) DEF NeverOvercounts
<1>15. WiresFaithful'
  <2>1. \A q \in Replicas : wire[q] # Idle => wire[q].state \in CRDTState
    BY WireType DEF IInv
  <2>2. \A c \in late : c.state \in CRDTState
    BY DEF IInv, TypeOK, Request
  <2>3. wire' = wire /\ late' = late
    BY DEF ReportJobEvent, roundVars
  <2>4. \A q \in Replicas : wire[q] # Idle => Faithful(wire[q].state)'
    BY <1>12, <2>1, <2>3 DEF IInv, WiresFaithful, Faithful
  <2>5. \A c \in late : \A p \in Outcome : \A q \in Replicas : c.state.byStatus[p][q] <= ingested'[q][p]
    <3> SUFFICES ASSUME NEW c \in late, NEW p \in Outcome, NEW q \in Replicas
                 PROVE  c.state.byStatus[p][q] <= ingested'[q][p]
      OBVIOUS
    <3>1. c.state.byStatus[p][q] <= ingested[q][p]
      BY DEF IInv, WiresFaithful, Faithful
    <3>2. c.state.byStatus[p][q] \in Nat
      BY <1>11, <2>2
    <3>3. ingested[q][p] \in Nat /\ ingested'[q][p] \in Nat /\ ingested'[q][p] >= ingested[q][p]
      BY <1>10
    <3> QED BY <3>1, <3>2, <3>3
  <2> QED BY <2>3, <2>4, <2>5 DEF WiresFaithful, Faithful
<1>16. OwnShardExact'
  <2>1. restarted' = restarted
    BY DEF ReportJobEvent
  <2>2. \A p \in Outcome : r \notin restarted => s.byStatus[p][r] = ingested'[r][p]
    <3> SUFFICES ASSUME NEW p \in Outcome, r \notin restarted
                 PROVE  s.byStatus[p][r] = ingested'[r][p]
      OBVIOUS
    <3>1. state[r].byStatus[p][r] = ingested[r][p]
      BY DEF IInv, OwnShardExact
    <3>2. s.byStatus[p][r] = IF p = o THEN state[r].byStatus[p][r] + 1 ELSE state[r].byStatus[p][r]
      BY <1>8
    <3>3. ingested'[r][p] = IF p = o THEN ingested[r][p] + 1 ELSE ingested[r][p]
      BY <1>10
    <3> QED BY <3>1, <3>2, <3>3
  <2>3. \A n \in Replicas \ {r} : \A p \in Outcome : ingested'[n][p] = ingested[n][p]
    BY <1>10
  <2> QED BY <1>3, <1>6, <2>1, <2>2, <2>3 DEF IInv, OwnShardExact
<1> QED BY <1>13, <1>14, <1>15, <1>16 DEF IInv

\* The dashboard's switch, and a restart, which empties a replica.
LEMMA ControlPreserves ==
  ASSUME IInv, NEW r \in Replicas,
         Restart(r) \/ \E enabled \in BOOLEAN : SetGossip(r, enabled)
  PROVE  IInv'
<1>1. ASSUME NEW enabled \in BOOLEAN, SetGossip(r, enabled) PROVE IInv'
  <2>1. UNCHANGED <<state, seen, todo, wire, late, reports, ingested, restarted>>
    BY <1>1 DEF SetGossip, dataVars, roundVars, reportVars
  <2>2. faults' \in 0..MaxFaults
    <3>1. faults' = faults \/ Fault("partition")
      BY <1>1 DEF SetGossip
    <3>2. TypeOK /\ faults \in 0..MaxFaults
      BY DEF IInv, TypeOK
    <3> QED BY <3>1, <3>2, FaultBounded
  <2>3. gossipOn' \in [Replicas -> BOOLEAN]
    BY <1>1 DEF SetGossip, IInv, TypeOK
  <2>4. TypeOK'
    BY <2>1, <2>2, <2>3 DEF IInv, TypeOK
  <2> QED BY <2>1, <2>4 DEF IInv, NeverOvercounts, WiresFaithful, OwnShardExact, Faithful
<1>2. CASE Restart(r)
  <2>1. /\ state' = [state EXCEPT ![r] = Empty]
        /\ restarted' = restarted \cup {r}
        /\ UNCHANGED <<reports, ingested>>
    BY <1>2 DEF Restart, reportVars
  <2>2. NewGCounter \in GCounter /\ NewLWWMap \in LWWMap /\ Keys(NewLWWMap) = {}
    BY DEF NewGCounter, GCounter, NewLWWMap, LWWMap, Keys
  <2>3. Empty \in CRDTState /\ Keys(Empty.recent) = {}
    BY <2>2 DEF Empty, CRDTState
  <2>4. \A o \in Outcome : \A q \in Replicas : Empty.byStatus[o][q] = 0
    BY DEF Empty, NewGCounter
  <2>5. PICK L \in LeftBehind(wire[r]) : late' = {c \in L : c.to # r}
    BY <1>2 DEF Restart
  <2>6. late' \subseteq Request /\ \A c \in late' : Faithful(c.state)
    BY <2>5, LeftBehindSound
  <2>7. /\ \A q \in Replicas : wire'[q] \in {Idle, wire[q]}
        /\ wire' = [q \in Replicas |-> wire'[q]]
    BY <1>2 DEF Restart
  <2>8. TypeOK'
    <3>1. state' \in [Replicas -> CRDTState]
      BY <2>1, <2>3 DEF IInv, TypeOK
    <3>2. \A q \in Replicas : Cardinality(Keys(state'[q].recent)) <= RecentLimit
      <4>1. Cardinality({}) = 0
        BY FS_EmptySet
      <4>2. \A q \in Replicas : state'[q] = IF q = r THEN Empty ELSE state[q]
        BY <2>1 DEF IInv, TypeOK
      <4>3. Cardinality(Keys(Empty.recent)) <= RecentLimit
        BY <2>3, <4>1, CRDTAssumption
      <4> QED BY <4>2, <4>3 DEF IInv, TypeOK
    <3>3. wire' \in [Replicas -> {Idle} \cup Request \cup Response]
      <4>1. wire \in [Replicas -> {Idle} \cup Request \cup Response]
        BY DEF IInv, TypeOK
      <4> QED BY <2>7, <4>1
    <3>4. seen' \in [Replicas -> SUBSET (Jobs \X LWWEntry)] /\ todo' \in [Replicas -> SUBSET Replicas]
      <4>1. seen' = [seen EXCEPT ![r] = {}] /\ todo' = [todo EXCEPT ![r] = {}]
        BY <1>2 DEF Restart
      <4>2. seen \in [Replicas -> SUBSET (Jobs \X LWWEntry)] /\ todo \in [Replicas -> SUBSET Replicas]
        BY DEF IInv, TypeOK
      <4> QED BY <4>1, <4>2
    <3>5. gossipOn' \in [Replicas -> BOOLEAN] /\ restarted' \subseteq Replicas
      <4>1. gossipOn' = [gossipOn EXCEPT ![r] = TRUE]
        BY <1>2 DEF Restart
      <4>2. gossipOn \in [Replicas -> BOOLEAN] /\ restarted \subseteq Replicas
        BY DEF IInv, TypeOK
      <4> QED BY <2>1, <4>1, <4>2
    <3>6. faults' \in 0..MaxFaults
      <4>1. Fault("restart") /\ TypeOK
        BY <1>2 DEF Restart, IInv
      <4> QED BY <4>1, FaultBounded
    <3> QED BY <2>1, <2>6, <3>1, <3>2, <3>3, <3>4, <3>5, <3>6 DEF IInv, TypeOK
  <2>9. NeverOvercounts'
    <3>1. \A o \in Outcome : \A q \in Replicas : Empty.byStatus[o][q] <= ingested[q][o]
      <4>1. \A o \in Outcome : \A q \in Replicas : ingested[q][o] \in Nat
        BY DEF IInv, TypeOK
      <4> QED BY <2>4, <4>1
    <3>2. \A q \in Replicas : state'[q] = IF q = r THEN Empty ELSE state[q]
      BY <2>1 DEF IInv, TypeOK
    <3> QED BY <2>1, <3>1, <3>2 DEF IInv, NeverOvercounts
  <2>10. WiresFaithful'
    BY <2>1, <2>6, <2>7 DEF IInv, WiresFaithful, Faithful
  <2>11. OwnShardExact'
    BY <2>1 DEF IInv, TypeOK, OwnShardExact
  <2> QED BY <2>8, <2>9, <2>10, <2>11 DEF IInv
<1> QED BY <1>1, <1>2
=============================================================================
