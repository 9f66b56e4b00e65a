------------------------- MODULE StateManagerProofs -------------------------
(***************************************************************************)
(* Proofs about the statemanager, and about the gateway's view of it, for  *)
(* any replicas, workers, jobs and clocks, and any number of reports,      *)
(* partitions, timeouts and restarts.                                      *)
(***************************************************************************)
EXTENDS StateManagerInvariant, CRDTView

\* The steps of the gossip loop, of a call that fails, and of a late request.
LEMMA GossipPreserves ==
  ASSUME IInv, NEW r \in Replicas,
         Send(r) \/ SyncState(r) \/ Receive(r) \/ CallFails(r) \/ \E c \in late : LateSync(c)
  PROVE  IInv'
<1>1. CASE Send(r)
  <2>1. PICK p \in Replicas :
          /\ wire' = [wire EXCEPT ![r] = [phase |-> "request", to |-> p, state |-> state[r]]]
          /\ todo' \in [Replicas -> SUBSET Replicas]
    <3> DEFINE peers == IF todo[r] = {} THEN Replicas \ {r} ELSE todo[r]
    <3>1. todo \in [Replicas -> SUBSET Replicas]
      BY DEF IInv, TypeOK
    <3>2. peers \subseteq Replicas
      BY <3>1
    <3>3. PICK p \in peers :
            /\ wire' = [wire EXCEPT ![r] = [phase |-> "request", to |-> p, state |-> state[r]]]
            /\ todo' = [todo EXCEPT ![r] = peers \ {p}]
      BY <1>1, Zenon DEF Send
    <3> HIDE DEF peers
    <3> QED BY <3>1, <3>2, <3>3, Zenon
  <2>2. [phase |-> "request", to |-> p, state |-> state[r]] \in Request
    BY DEF IInv, TypeOK, Request
  <2>3. Faithful(state[r])
    BY DEF IInv, NeverOvercounts, Faithful
  <2>4. UNCHANGED <<state, seen, gossipOn, late, faults, reports, ingested, restarted>>
    BY <1>1 DEF Send, dataVars, reportVars
  <2>5. TypeOK'
    BY <2>1, <2>2, <2>4 DEF IInv, TypeOK
  <2>6. WiresFaithful'
    <3>1. \A q \in Replicas : wire'[q] # Idle => Faithful(wire'[q].state)
      BY <2>1, <2>3 DEF IInv, TypeOK, WiresFaithful
    <3> QED BY <2>4, <3>1 DEF IInv, WiresFaithful, Faithful
  <2> QED BY <2>4, <2>5, <2>6 DEF IInv, NeverOvercounts, OwnShardExact
<1>2. CASE SyncState(r)
  <2> DEFINE p == wire[r].to
  <2>1. wire[r] # Idle /\ wire[r].phase = "request"
    BY <1>2 DEF SyncState, Idle
  <2>2. p \in Replicas /\ wire[r].state \in CRDTState /\ Faithful(wire[r].state)
    BY <2>1, WireType DEF IInv, WiresFaithful
  <2>3. UNCHANGED <<gossipOn, todo, late, faults, reports, ingested, restarted>>
    BY <1>2 DEF SyncState, reportVars
  <2>4. CASE /\ Absorb(p, wire[r].state)
             /\ wire' = [wire EXCEPT ![r] = [phase |-> "response", to |-> p, state |-> state'[p]]]
    <3> HIDE DEF p
    <3>1. /\ state' \in [Replicas -> CRDTState]
          /\ \A q \in Replicas : Cardinality(Keys(state'[q].recent)) <= RecentLimit
          /\ seen' \in [Replicas -> SUBSET (Jobs \X LWWEntry)]
          /\ NeverOvercounts' /\ OwnShardExact'
      BY <2>2, <2>3, <2>4, AbsorbSound
    <3>2. [phase |-> "response", to |-> p, state |-> state'[p]] \in Response
      BY <2>2, <3>1 DEF Response
    <3>3. TypeOK'
      BY <2>3, <2>4, <3>1, <3>2, Zenon DEF IInv, TypeOK
    <3>4. \A o \in Outcome : \A q \in Replicas : state'[p].byStatus[o][q] <= ingested[q][o]
      BY <2>2, <2>3, <3>1 DEF NeverOvercounts
    <3>5. \A q \in Replicas : wire'[q] # Idle => Faithful(wire'[q].state)
      BY <2>4, <3>4 DEF IInv, TypeOK, WiresFaithful, Faithful
    <3>6. WiresFaithful'
      BY <2>3, <3>5 DEF IInv, WiresFaithful, Faithful
    <3> QED BY <3>1, <3>3, <3>6 DEF IInv
  <2>5. CASE wire' = [wire EXCEPT ![r] = Idle] /\ UNCHANGED dataVars
    <3>1. TypeOK'
      BY <2>3, <2>5 DEF IInv, TypeOK, dataVars
    <3>2. WiresFaithful'
      BY <2>3, <2>5 DEF IInv, TypeOK, WiresFaithful, Faithful
    <3> QED BY <2>3, <2>5, <3>1, <3>2 DEF IInv, NeverOvercounts, OwnShardExact, dataVars
  <2> QED BY <1>2, <2>4, <2>5 DEF SyncState
<1>3. CASE Receive(r)
  <2>1. wire[r] # Idle
    BY <1>3 DEF Receive, Idle
  <2>2. wire[r].state \in CRDTState /\ Faithful(wire[r].state)
    BY <2>1, WireType DEF IInv, WiresFaithful
  <2>3. UNCHANGED <<gossipOn, todo, late, faults, reports, ingested, restarted>>
    BY <1>3 DEF Receive, reportVars
  <2>4. Absorb(r, wire[r].state) /\ wire' = [wire EXCEPT ![r] = Idle]
    BY <1>3 DEF Receive
  <2>5. /\ state' \in [Replicas -> CRDTState]
        /\ \A q \in Replicas : Cardinality(Keys(state'[q].recent)) <= RecentLimit
        /\ seen' \in [Replicas -> SUBSET (Jobs \X LWWEntry)]
        /\ NeverOvercounts' /\ OwnShardExact'
    BY <2>2, <2>3, <2>4, AbsorbSound
  <2>6. TypeOK'
    BY <2>3, <2>4, <2>5, Zenon DEF IInv, TypeOK
  <2>7. WiresFaithful'
    BY <2>3, <2>4 DEF IInv, TypeOK, WiresFaithful, Faithful
  <2> QED BY <2>5, <2>6, <2>7 DEF IInv
<1>4. CASE CallFails(r)
  <2>1. late' \subseteq Request /\ \A c \in late' : Faithful(c.state)
    BY <1>4, LeftBehindSound DEF CallFails
  <2>2. /\ UNCHANGED <<state, seen, gossipOn, todo, reports, ingested, restarted>>
        /\ wire' = [wire EXCEPT ![r] = Idle]
    BY <1>4 DEF CallFails, dataVars, reportVars
  <2>3. faults' \in 0..MaxFaults
    <3>1. Fault("timeout") /\ TypeOK
      BY <1>4 DEF CallFails, IInv
    <3> QED BY <3>1, FaultBounded
  <2>4. TypeOK'
    BY <2>1, <2>2, <2>3 DEF IInv, TypeOK
  <2>5. WiresFaithful'
    BY <2>1, <2>2 DEF IInv, TypeOK, WiresFaithful, Faithful
  <2> QED BY <2>2, <2>4, <2>5 DEF IInv, NeverOvercounts, OwnShardExact
<1>5. ASSUME NEW c \in late, LateSync(c) PROVE IInv'
  <2>1. c.to \in Replicas /\ c.state \in CRDTState /\ Faithful(c.state)
    BY DEF IInv, TypeOK, WiresFaithful, Request
  <2>2. UNCHANGED <<gossipOn, todo, wire, faults, reports, ingested, restarted>> /\ late' \subseteq late
    BY <1>5 DEF LateSync, reportVars
  <2>3. WiresFaithful'
    BY <2>2 DEF IInv, WiresFaithful, Faithful
  <2>4. CASE Absorb(c.to, c.state)
    <3>1. /\ state' \in [Replicas -> CRDTState]
          /\ \A q \in Replicas : Cardinality(Keys(state'[q].recent)) <= RecentLimit
          /\ seen' \in [Replicas -> SUBSET (Jobs \X LWWEntry)]
          /\ NeverOvercounts' /\ OwnShardExact'
      BY <2>1, <2>2, <2>4, AbsorbSound, SMTT(20)
    <3> QED BY <2>2, <2>3, <3>1 DEF IInv, TypeOK
  <2>5. CASE UNCHANGED dataVars
    BY <2>2, <2>3, <2>5 DEF IInv, TypeOK, NeverOvercounts, OwnShardExact, dataVars
  <2> QED BY <1>5, <2>4, <2>5 DEF LateSync
<1> QED BY <1>1, <1>2, <1>3, <1>4, <1>5

\* Every step keeps the invariant.
LEMMA NextIInv == IInv /\ [Next]_vars => IInv'
<1> SUFFICES ASSUME IInv, [Next]_vars PROVE IInv'
  OBVIOUS
<1>1. CASE UNCHANGED vars
  <2>1. UNCHANGED <<state, seen, gossipOn, todo, wire, late, faults, reports, ingested, restarted>>
    BY <1>1 DEF vars, dataVars, roundVars, reportVars
  <2> QED BY <2>1 DEF IInv, TypeOK, NeverOvercounts, WiresFaithful, OwnShardExact, Faithful
<1>2. ASSUME NEW w \in Workers, NEW j \in Jobs, NEW o \in Outcome, Report(w, j, o)
      PROVE  IInv'
  <2>1. Home[w] \in Replicas
    BY StateManagerAssumption
  <2> QED BY <1>2, <2>1, ReportPreserves DEF Report
<1>3. ASSUME NEW r \in Replicas, Send(r) \/ SyncState(r) \/ Receive(r) \/ CallFails(r)
      PROVE  IInv'
  BY <1>3, GossipPreserves
<1>4. ASSUME NEW r \in Replicas, Restart(r) \/ \E enabled \in BOOLEAN : SetGossip(r, enabled)
      PROVE  IInv'
  BY <1>4, ControlPreserves
<1>5. ASSUME NEW c \in late, LateSync(c) PROVE IInv'
  <2>1. c.to \in Replicas
    BY DEF IInv, TypeOK, Request
  <2> QED BY <1>5, <2>1, GossipPreserves
<1> QED BY <1>1, <1>2, <1>3, <1>4, <1>5 DEF Next

-----------------------------------------------------------------------------
\* Every replica's state stays well typed, and its window within recentLimit,
\* through any sequence of reports, merges, failed calls and restarts.
THEOREM StateTypeCorrect == Spec => []TypeOK
<1>1. IInv => TypeOK
  BY DEF IInv
<1> QED BY <1>1, InitIInv, NextIInv, PTL DEF Spec

\* GCounter.Merge never inflates: for any number of replicas, whatever is
\* exchanged, repeated, delayed or forgotten in a restart, no replica counts more
\* of another's reports than that one served.
THEOREM CountsNeverExceed == Spec => []NeverOvercounts
<1>1. IInv => NeverOvercounts
  BY DEF IInv
<1> QED BY <1>1, InitIInv, NextIInv, PTL DEF Spec

\* Inc on a replica's own shard is never hidden by what the others already
\* count, as long as that replica has not lost its state.
THEOREM IncrementsCount == Spec => IncrementCounts
<1> DEFINE Counts == \A r \in Replicas \ restarted : \A o \in Outcome :
                       ingested'[r][o] > ingested[r][o] => IsNews(r, o)
<1>1. IInv /\ IInv' /\ [Next]_vars => [Counts]_vars
  <2> SUFFICES ASSUME IInv, IInv', Next, NEW r \in Replicas \ restarted, NEW o \in Outcome,
                      ingested'[r][o] > ingested[r][o]
               PROVE  IsNews(r, o)
    OBVIOUS
  <2>1. restarted' = restarted
    <3>1. UNCHANGED ingested \/ restarted' = restarted
      <4>1. ASSUME NEW w \in Workers, NEW j \in Jobs, NEW x \in Outcome, Report(w, j, x)
            PROVE  restarted' = restarted
        BY <4>1 DEF Report, ReportJobEvent
      <4>2. ASSUME NEW p \in Replicas, Send(p) \/ SyncState(p) \/ Receive(p) \/ CallFails(p)
            PROVE  restarted' = restarted
        BY <4>2 DEF Send, SyncState, Receive, CallFails
      <4>3. ASSUME NEW p \in Replicas, Restart(p)
            PROVE  UNCHANGED ingested
        BY <4>3 DEF Restart, reportVars
      <4>4. ASSUME NEW p \in Replicas, NEW enabled \in BOOLEAN, SetGossip(p, enabled)
            PROVE  restarted' = restarted
        BY <4>4 DEF SetGossip
      <4>5. ASSUME NEW c \in late, LateSync(c)
            PROVE  restarted' = restarted
        BY <4>5 DEF LateSync
      <4> QED BY <4>1, <4>2, <4>3, <4>4, <4>5 DEF Next
    <3>2. ingested[r][o] \in Nat
      BY DEF IInv, TypeOK
    <3> QED BY <3>1, <3>2
  <2>2. state'[r].byStatus[o][r] = ingested'[r][o]
    BY <2>1 DEF IInv, OwnShardExact
  <2>3. \A q \in Replicas : state[q].byStatus[o][r] <= ingested[r][o]
    BY DEF IInv, NeverOvercounts
  <2>4. /\ ingested[r][o] \in Nat /\ ingested'[r][o] \in Nat
        /\ \A q \in Replicas : state[q].byStatus[o][r] \in Nat
    BY DEF IInv, TypeOK, CRDTState, GCounter
  <2> QED BY <2>2, <2>3, <2>4 DEF IsNews
<1> QED BY <1>1, InitIInv, NextIInv, PTL DEF Spec, IncrementCounts

-----------------------------------------------------------------------------
(* The window of recent outcomes. *)

\* A merge keeps every replica's window the newest of what it was told.
LEMMA AbsorbWindow ==
  ASSUME TypeOK, WindowIsNewest, NEW r \in Replicas, NEW t \in CRDTState, Absorb(r, t)
  PROVE  WindowIsNewest'
<1>1. PICK u \in mergeLocked(state[r], t) : state' = [state EXCEPT ![r] = u]
  BY Zenon DEF Absorb
<1>2. u.recent \in MergeMap(state[r].recent, t.recent)
  BY DEF mergeLocked
<1>3. /\ state \in [Replicas -> CRDTState] /\ seen \in [Replicas -> SUBSET (Jobs \X LWWEntry)]
      /\ state[r].recent \in LWWMap /\ t.recent \in LWWMap
  BY DEF TypeOK, CRDTState
<1>4. Newest(u.recent, seen[r] \cup Entries(t.recent))
  <2>1. Newest(state[r].recent, seen[r])
    BY Zenon DEF WindowIsNewest, Newest
  <2> QED BY <1>2, <1>3, <2>1, MergeKeepsNewest
<1>5. \A q \in Replicas :
        /\ state'[q] = IF q = r THEN u ELSE state[q]
        /\ seen'[q] = IF q = r THEN seen[r] \cup Entries(t.recent) ELSE seen[q]
  BY <1>1, <1>3 DEF Absorb
<1> QED BY <1>4, <1>5 DEF WindowIsNewest, Newest

LEMMA NextWindow == IInv /\ WindowIsNewest /\ [Next]_vars => WindowIsNewest'
<1> SUFFICES ASSUME IInv, WindowIsNewest, [Next]_vars PROVE WindowIsNewest'
  OBVIOUS
<1>1. TypeOK
  BY DEF IInv
<1>2. CASE UNCHANGED dataVars
  BY <1>2 DEF dataVars, WindowIsNewest
<1>3. ASSUME NEW w \in Workers, NEW j \in Jobs, NEW o \in Outcome, Report(w, j, o)
      PROVE  WindowIsNewest'
  <2> DEFINE r == Home[w]
  <2>1. PICK ts \in Clock[r] : ReportJobEvent(r, j, w, o, ts)
    BY <1>3 DEF Report
  <2> DEFINE e == [status |-> o, worker |-> w, ts |-> ts, replica |-> r]
  <2>2. r \in Replicas /\ e \in LWWEntry
    BY StateManagerAssumption DEF LWWEntry
  <2>3. PICK m \in Set(state[r].recent, j, e) :
          state' = [state EXCEPT ![r] =
            [byStatus |-> [state[r].byStatus EXCEPT ![o] = Inc(@, r)],
             byWorker |-> [state[r].byWorker EXCEPT ![w] = Inc(@, r)],
             recent   |-> m]]
    BY <2>1, Zenon DEF ReportJobEvent
  <2>4. seen' = [seen EXCEPT ![r] = @ \cup {<<j, e>>}]
    BY <2>1, SMTT(20) DEF ReportJobEvent
  <2>5. /\ state \in [Replicas -> CRDTState] /\ seen \in [Replicas -> SUBSET (Jobs \X LWWEntry)]
        /\ state[r].recent \in LWWMap
    BY <1>1, <2>2, ZenonT(30) DEF TypeOK, CRDTState
  <2> HIDE DEF e, r
  <2>6. Newest(m, seen[r] \cup {<<j, e>>})
    <3>1. Newest(state[r].recent, seen[r])
      BY <2>2, Zenon DEF WindowIsNewest, Newest
    <3> QED BY <2>2, <2>3, <2>5, <3>1, SetKeepsNewest
  <2>7. \A q \in Replicas :
          /\ state'[q].recent = IF q = r THEN m ELSE state[q].recent
          /\ seen'[q] = IF q = r THEN seen[r] \cup {<<j, e>>} ELSE seen[q]
    BY <2>3, <2>4, <2>5, ZenonT(30)
  <2> QED BY <2>6, <2>7 DEF WindowIsNewest, Newest
<1>4. ASSUME NEW r \in Replicas, SyncState(r) PROVE WindowIsNewest'
  <2>1. wire[r] # Idle
    BY <1>4 DEF SyncState, Idle
  <2> QED BY <1>1, <1>2, <1>4, <2>1, WireType, AbsorbWindow DEF SyncState
<1>5. ASSUME NEW r \in Replicas, Receive(r) PROVE WindowIsNewest'
  <2>1. wire[r] # Idle
    BY <1>5 DEF Receive, Idle
  <2> QED BY <1>1, <1>5, <2>1, WireType, AbsorbWindow DEF Receive
<1>6. ASSUME NEW c \in late, LateSync(c) PROVE WindowIsNewest'
  <2>1. c.to \in Replicas /\ c.state \in CRDTState
    BY <1>1 DEF TypeOK, Request
  <2> QED BY <1>1, <1>2, <1>6, <2>1, AbsorbWindow DEF LateSync
<1>7. ASSUME NEW r \in Replicas, Restart(r) PROVE WindowIsNewest'
  <2>1. Keys(Empty.recent) = {}
    BY DEF Empty, NewLWWMap, Keys
  <2>2. Newest(Empty.recent, {})
    BY <2>1 DEF Newest, Entries
  <2>3. \A q \in Replicas : /\ state'[q] = IF q = r THEN Empty ELSE state[q]
                            /\ seen'[q] = IF q = r THEN {} ELSE seen[q]
    BY <1>1, <1>7 DEF Restart, TypeOK
  <2> QED BY <2>2, <2>3 DEF WindowIsNewest, Newest
<1>8. ASSUME NEW r \in Replicas,
             Send(r) \/ CallFails(r) \/ \E enabled \in BOOLEAN : SetGossip(r, enabled)
      PROVE  UNCHANGED dataVars
  BY <1>8 DEF Send, CallFails, SetGossip
<1>9. CASE UNCHANGED vars
  BY <1>2, <1>9 DEF vars
<1> QED BY <1>2, <1>3, <1>4, <1>5, <1>6, <1>7, <1>8, <1>9 DEF Next

\* LWWMap.prune drops entries that merges bring back: all the same, for any limit
\* and any clocks, a replica's window holds the winning entries of the newest jobs
\* among all it was told of since it started.
THEOREM WindowStaysNewest == Spec => []WindowIsNewest
<1>1. Init => WindowIsNewest
  <2>1. Keys(Empty.recent) = {}
    BY DEF Empty, NewLWWMap, Keys
  <2> QED BY <2>1, ZenonT(30) DEF Init, WindowIsNewest, Entries
<1> QED BY <1>1, InitIInv, NextIInv, NextWindow, PTL DEF Spec
-----------------------------------------------------------------------------
(* The gateway's view of the replicas. *)

\* A replica answers once per request, with at least what was reported to it
\* before the request, if it has kept its state.
Answered(r) == got[r] \notin {Waiting, Unreachable}

ViewInv ==
  /\ got \in [Replicas -> CRDTState \cup {Waiting, Unreachable}]
  /\ before \in [Replicas -> [Outcome -> Nat]]
  /\ \A r \in Replicas : \A o \in Outcome : before[r][o] <= ingested[r][o]
  /\ \A r \in Replicas \ restarted :
       Answered(r) => \A o \in Outcome : got[r].byStatus[o][r] >= before[r][o]
  /\ view = "converged" => \A q, r \in Replicas : Answered(r) /\ got[q] = got[r]

\* The calls of a partition or heal request that have ended without an error have
\* done what they were for, as long as no replica has restarted.
ControlInv ==
  /\ control \in [enabled : BOOLEAN, left : SUBSET Replicas, failed : BOOLEAN]
  /\ outcome # "undone" /\ ~control.failed =>
       \A r \in Replicas \ control.left : gossipOn[r] = control.enabled
  /\ outcome = "200" => ~control.failed /\ control.left = {}

CRDTViewInv == IInv /\ ViewInv /\ ControlInv

LEMMA InitCRDTViewInv == CRDTViewInit => CRDTViewInv
<1> SUFFICES ASSUME CRDTViewInit PROVE CRDTViewInv
  OBVIOUS
<1>1. IInv
  BY InitIInv DEF CRDTViewInit
<1>2. ingested \in [Replicas -> [Outcome -> Nat]]
  BY <1>1 DEF IInv, TypeOK
<1>3. ViewInv
  BY <1>2 DEF CRDTViewInit, ViewInv, Answered
<1>4. ControlInv
  BY DEF CRDTViewInit, ControlInv
<1> QED BY <1>1, <1>3, <1>4 DEF CRDTViewInv

\* What a step of the replicas does to the numbers of reports served.
LEMMA ReplicasMove ==
  ASSUME IInv, ReplicaStep \/ \E r \in Replicas : RestartReplica(r)
  PROVE  /\ IInv'
         /\ restarted \subseteq restarted'
         /\ \A r \in Replicas : \A o \in Outcome : ingested'[r][o] >= ingested[r][o]
<1>1. Next
  BY Zenon DEF ReplicaStep, RestartReplica, Next
<1>2. IInv'
  BY <1>1, NextIInv
<1>3. \A r \in Replicas : \A o \in Outcome : ingested[r][o] \in Nat
  BY DEF IInv, TypeOK
<1>4. ASSUME NEW w \in Workers, NEW j \in Jobs, NEW p \in Outcome, Report(w, j, p)
      PROVE  /\ restarted' = restarted
             /\ \A r \in Replicas : \A o \in Outcome : ingested'[r][o] >= ingested[r][o]
  <2>1. restarted' = restarted /\ ingested' = [ingested EXCEPT ![Home[w]][p] = @ + 1]
    BY <1>4 DEF Report, ReportJobEvent
  <2>2. ingested \in [Replicas -> [Outcome -> Nat]]
    BY DEF IInv, TypeOK
  <2> QED BY <2>1, <2>2
<1>5. ASSUME NEW r \in Replicas, Send(r) \/ SyncState(r) \/ Receive(r) \/ CallFails(r)
      PROVE  UNCHANGED <<restarted, ingested>>
  BY <1>5 DEF Send, SyncState, Receive, CallFails, reportVars
<1>6. ASSUME NEW c \in late, LateSync(c) PROVE UNCHANGED <<restarted, ingested>>
  BY <1>6 DEF LateSync, reportVars
<1>7. ASSUME NEW r \in Replicas, RestartReplica(r)
      PROVE  restarted \subseteq restarted' /\ UNCHANGED ingested
  BY <1>7 DEF RestartReplica, Restart, reportVars
<1> QED BY <1>2, <1>3, <1>4, <1>5, <1>6, <1>7 DEF ReplicaStep

\* A call of a partition or heal request changes nothing of a replica but its switch.
LEMMA SwitchKeeps ==
  ASSUME CRDTViewInv, NEW r \in Replicas, GossipIsSet(r) \/ SetGossipFails(r)
  PROVE  CRDTViewInv'
<1>1. /\ UNCHANGED <<state, seen, todo, wire, late, faults, reports, ingested, restarted>>
      /\ UNCHANGED viewVars
  BY DEF GossipIsSet, SetGossipFails, Proceed, dataVars, roundVars, reportVars
<1>2. gossipOn \in [Replicas -> BOOLEAN] /\ control.enabled \in BOOLEAN
  BY DEF CRDTViewInv, IInv, TypeOK, ControlInv
<1>3. gossipOn' \in [Replicas -> BOOLEAN]
  BY <1>2, Zenon DEF GossipIsSet, SetGossipFails
<1>4. IInv'
  <2>1. TypeOK'
    BY <1>1, <1>3 DEF CRDTViewInv, IInv, TypeOK
  <2> QED BY <1>1, <2>1, Zenon DEF CRDTViewInv, IInv, NeverOvercounts, WiresFaithful, OwnShardExact, Faithful
<1>5. ViewInv'
  BY <1>1 DEF CRDTViewInv, ViewInv, Answered, viewVars
<1>6. ControlInv'
  <2>1. CASE GossipIsSet(r)
    BY <1>2, <2>1, Zenon DEF GossipIsSet, Proceed, CRDTViewInv, ControlInv
  <2>2. CASE SetGossipFails(r)
    BY <2>2, Zenon DEF SetGossipFails, Proceed, CRDTViewInv, ControlInv
  <2> QED BY <2>1, <2>2
<1> QED BY <1>4, <1>5, <1>6 DEF CRDTViewInv

LEMMA NextCRDTViewInv == CRDTViewInv /\ [CRDTViewNext]_crdtViewVars => CRDTViewInv'
<1> SUFFICES ASSUME CRDTViewInv, [CRDTViewNext]_crdtViewVars PROVE CRDTViewInv'
  OBVIOUS
<1>1. IInv /\ ViewInv /\ ControlInv
  BY DEF CRDTViewInv
<1>2. CASE ReplicaStep \/ \E r \in Replicas : RestartReplica(r)
  <2>1. /\ IInv' /\ restarted \subseteq restarted'
        /\ \A r \in Replicas : \A o \in Outcome : ingested'[r][o] >= ingested[r][o]
    BY <1>1, <1>2, ReplicasMove
  <2>2. UNCHANGED <<got, view, before, control>>
    BY <1>2 DEF ReplicaStep, RestartReplica, viewVars, controlVars
  <2>3. \A r \in Replicas : \A o \in Outcome :
          ingested[r][o] \in Nat /\ ingested'[r][o] \in Nat /\ before[r][o] \in Nat
    <3>1. /\ ingested \in [Replicas -> [Outcome -> Nat]] /\ ingested' \in [Replicas -> [Outcome -> Nat]]
          /\ before \in [Replicas -> [Outcome -> Nat]]
      BY <1>1, <2>1, Zenon DEF IInv, TypeOK, ViewInv
    <3> QED BY <3>1
  <2>4. ViewInv'
    BY <1>1, <2>1, <2>2, <2>3 DEF ViewInv, Answered
  <2>5. outcome' = "undone" \/ UNCHANGED <<outcome, gossipOn>>
    <3>1. ASSUME NEW r \in Replicas, Send(r) \/ SyncState(r) \/ Receive(r) \/ CallFails(r)
          PROVE  UNCHANGED gossipOn
      BY <3>1 DEF Send, SyncState, Receive, CallFails
    <3>2. ASSUME NEW w \in Workers, NEW j \in Jobs, NEW o \in Outcome, Report(w, j, o)
          PROVE  UNCHANGED gossipOn
      BY <3>2 DEF Report, ReportJobEvent
    <3>3. ASSUME NEW c \in late, LateSync(c) PROVE UNCHANGED gossipOn
      BY <3>3 DEF LateSync
    <3> QED BY <1>2, <3>1, <3>2, <3>3 DEF ReplicaStep, RestartReplica, controlVars
  <2>6. ControlInv'
    BY <1>1, <2>2, <2>5 DEF ControlInv
  <2> QED BY <2>1, <2>4, <2>6 DEF CRDTViewInv
<1>3. ASSUME NEW r \in Replicas, GossipIsSet(r) \/ SetGossipFails(r) PROVE CRDTViewInv'
  BY <1>3, SwitchKeeps
<1>4. UNCHANGED vars => IInv' /\ UNCHANGED <<state, gossipOn, ingested, restarted>>
  BY <1>1, NextIInv DEF vars, dataVars, reportVars
<1>5. UNCHANGED vars /\ UNCHANGED controlVars /\ ViewInv' => CRDTViewInv'
  BY <1>1, <1>4 DEF CRDTViewInv, ControlInv, controlVars
<1>6. CASE UNCHANGED crdtViewVars
  <2>1. ViewInv'
    BY <1>1, <1>4, <1>6 DEF crdtViewVars, viewVars, ViewInv, Answered
  <2> QED BY <1>5, <1>6, <2>1 DEF crdtViewVars
<1>7. CASE Fetch
  <2>1. /\ got' = [r \in Replicas |-> Waiting] /\ view' = "none" /\ before' = ingested
        /\ UNCHANGED <<vars, controlVars>>
    BY <1>7 DEF Fetch
  <2>2. ingested \in [Replicas -> [Outcome -> Nat]]
    BY <1>1 DEF IInv, TypeOK
  <2>3. ViewInv'
    BY <1>4, <2>1, <2>2 DEF ViewInv, Answered
  <2> QED BY <1>5, <2>1, <2>3
<1>8. ASSUME NEW r \in Replicas, GetCRDTState(r) PROVE CRDTViewInv'
  <2>1. /\ got' = [got EXCEPT ![r] = state[r]] /\ got[r] = Waiting
        /\ UNCHANGED <<vars, view, before, controlVars>>
    BY <1>8 DEF GetCRDTState
  <2>2. state[r] \in CRDTState /\ view # "converged"
    BY <1>1, <2>1 DEF IInv, TypeOK, ViewInv, Answered
  <2>3. r \notin restarted => \A o \in Outcome : state[r].byStatus[o][r] >= before[r][o]
    BY <1>1 DEF IInv, TypeOK, OwnShardExact, ViewInv
  <2>4. ViewInv'
    BY <1>1, <1>4, <2>1, <2>2, <2>3, Zenon DEF ViewInv, Answered
  <2> QED BY <1>5, <2>1, <2>4
<1>9. ASSUME NEW r \in Replicas, NoState(r) PROVE CRDTViewInv'
  <2>1. ViewInv'
    BY <1>1, <1>4, <1>9 DEF NoState, ViewInv, Answered
  <2> QED BY <1>5, <1>9, <2>1, SMTT(20) DEF NoState
<1>10. CASE ShowView
  <2>1. ViewInv'
    BY <1>1, <1>4, <1>10 DEF ShowView, Converged, ViewInv, Answered
  <2> QED BY <1>5, <1>10, <2>1 DEF ShowView
<1>11. ASSUME NEW enabled \in BOOLEAN, HandleSetGossip(enabled) PROVE CRDTViewInv'
  <2>1. ViewInv'
    BY <1>1, <1>4, <1>11 DEF HandleSetGossip, ViewInv, Answered, viewVars
  <2>2. ControlInv'
    BY <1>11 DEF HandleSetGossip, ControlInv
  <2> QED BY <1>4, <1>11, <2>1, <2>2 DEF HandleSetGossip, CRDTViewInv
<1> QED BY <1>2, <1>3, <1>6, <1>7, <1>8, <1>9, <1>10, <1>11 DEF CRDTViewNext

LEMMA CRDTViewInductive == CRDTViewSpec => []CRDTViewInv
BY InitCRDTViewInv, NextCRDTViewInv, PTL DEF CRDTViewSpec

\* handleCRDTState compares states it read at different times; all the same, for
\* any number of replicas, however they report, gossip and restart meanwhile, a
\* converged answer misses no report made before the request.
THEOREM ConvergedMissesNothing == CRDTViewSpec => []ConvergedShowsAll
<1>1. CRDTViewInv => ConvergedShowsAll
  <2> SUFFICES ASSUME CRDTViewInv, view = "converged", NEW q \in Replicas,
                      NEW r \in Replicas \ restarted, NEW o \in Outcome
               PROVE  got[q] # Unreachable /\ got[q].byStatus[o][r] >= before[r][o]
    BY DEF ConvergedShowsAll
  <2> QED BY Zenon DEF CRDTViewInv, ViewInv, Answered
<1> QED BY <1>1, CRDTViewInductive, PTL

\* handleSetGossip answers 200 only if every replica took the switch, and a
\* replica whose gossip is off neither serves a state nor merges a request: no
\* replica learns from another until a heal or a restart.
THEOREM PartitionsHold == CRDTViewSpec => PartitionHolds
<1> DEFINE Holds ==
      outcome = "200" /\ control.left = {} /\ ~control.enabled =>
        \A r \in Replicas :
          /\ wire'[r].phase = "response" => wire[r].phase = "response"
          /\ state'[r] # state[r] =>
               \/ ingested'[r] # ingested[r]
               \/ outcome' = "undone"
               \/ wire[r].phase = "response"
<1>1. CRDTViewInv /\ [CRDTViewNext]_crdtViewVars => [Holds]_crdtViewVars
  <2> SUFFICES ASSUME CRDTViewInv, CRDTViewNext,
                      outcome = "200", control.left = {}, ~control.enabled
               PROVE  \A r \in Replicas :
                        /\ wire'[r].phase = "response" => wire[r].phase = "response"
                        /\ state'[r] # state[r] =>
                             \/ ingested'[r] # ingested[r]
                             \/ outcome' = "undone"
                             \/ wire[r].phase = "response"
    OBVIOUS
  <2>1. \A r \in Replicas : ~gossipOn[r]
    BY DEF CRDTViewInv, ControlInv
  <2>2. /\ wire = [r \in Replicas |-> wire[r]] /\ state = [r \in Replicas |-> state[r]]
        /\ ingested \in [Replicas -> [Outcome -> Nat]]
        /\ \A r \in Replicas : wire[r].phase = "request" => wire[r].to \in Replicas
        /\ \A c \in late : c.to \in Replicas
    BY DEF CRDTViewInv, IInv, TypeOK, Request, Response, Idle
  <2>3. ASSUME NEW w \in Workers, NEW j \in Jobs, NEW o \in Outcome, Report(w, j, o)
        PROVE  UNCHANGED wire /\ \A r \in Replicas : state'[r] # state[r] => ingested'[r] # ingested[r]
    <3>1. PICK s : /\ state' = [state EXCEPT ![Home[w]] = s]
                   /\ ingested' = [ingested EXCEPT ![Home[w]][o] = @ + 1]
                   /\ UNCHANGED wire
      BY <2>3, Zenon DEF Report, ReportJobEvent, roundVars
    <3>2. ingested'[Home[w]][o] = ingested[Home[w]][o] + 1 /\ ingested[Home[w]][o] \in Nat
      BY <2>2, <3>1, StateManagerAssumption
    <3> QED BY <2>2, <3>1, <3>2
  <2>4. ASSUME NEW p \in Replicas, Send(p) \/ SyncState(p) \/ CallFails(p)
        PROVE  /\ UNCHANGED state
               /\ \E c : wire' = [wire EXCEPT ![p] = c] /\ c.phase # "response"
    <3>1. CASE Send(p)
      <4>1. PICK q : wire' = [wire EXCEPT ![p] = [phase |-> "request", to |-> q, state |-> state[p]]]
        BY <3>1, Zenon DEF Send
      <4>2. [phase |-> "request", to |-> q, state |-> state[p]].phase # "response"
        OBVIOUS
      <4>3. UNCHANGED state
        BY <3>1 DEF Send, dataVars
      <4> QED BY <4>1, <4>2, <4>3, Zenon
    <3>2. CASE SyncState(p)
      BY <2>1, <2>2, <3>2 DEF SyncState, dataVars, Idle
    <3>3. CASE CallFails(p)
      <4>1. wire' = [wire EXCEPT ![p] = Idle] /\ UNCHANGED state
        BY <3>3 DEF CallFails, dataVars
      <4>2. Idle.phase # "response"
        BY DEF Idle
      <4> QED BY <4>1, <4>2, Zenon
    <3> QED BY <2>4, <3>1, <3>2, <3>3
  <2>5. ASSUME NEW p \in Replicas, Receive(p)
        PROVE  /\ wire[p].phase = "response" /\ wire' = [wire EXCEPT ![p] = Idle]
               /\ \E s : state' = [state EXCEPT ![p] = s]
    BY <2>5, Zenon DEF Receive, Absorb
  <2>6. ASSUME NEW c \in late, LateSync(c) PROVE UNCHANGED <<wire, state>>
    BY <2>1, <2>2, <2>6 DEF LateSync, dataVars
  <2>7. ASSUME NEW p \in Replicas, RestartReplica(p)
        PROVE  outcome' = "undone" /\ \A r \in Replicas : wire'[r] \in {Idle, wire[r]}
    BY <2>7 DEF RestartReplica, Restart
  <2>8. ASSUME NEW p \in Replicas,
               GetCRDTState(p) \/ NoState(p) \/ GossipIsSet(p) \/ SetGossipFails(p)
        PROVE  UNCHANGED <<wire, state>>
    BY <2>8 DEF GetCRDTState, NoState, GossipIsSet, SetGossipFails, Proceed, vars, dataVars, roundVars
  <2>9. ASSUME NEW enabled \in BOOLEAN, Fetch \/ ShowView \/ HandleSetGossip(enabled)
        PROVE  UNCHANGED <<wire, state>>
    BY <2>9 DEF Fetch, ShowView, HandleSetGossip, vars, dataVars, roundVars
  <2>10. CASE ReplicaStep
    <3> SUFFICES ASSUME NEW r \in Replicas
                 PROVE  /\ wire'[r].phase = "response" => wire[r].phase = "response"
                        /\ state'[r] # state[r] =>
                             ingested'[r] # ingested[r] \/ wire[r].phase = "response"
      OBVIOUS
    <3>1. ASSUME NEW p \in Replicas, Send(p) \/ SyncState(p) \/ CallFails(p)
          PROVE  UNCHANGED state /\ (wire'[r] = wire[r] \/ wire'[r].phase # "response")
      BY <2>2, <2>4, <3>1
    <3>2. ASSUME NEW p \in Replicas, Receive(p)
          PROVE  \/ wire[r].phase = "response"
                 \/ wire'[r] = wire[r] /\ state'[r] = state[r]
      BY <2>2, <2>5, <3>2
    <3> QED BY <2>3, <2>6, <2>10, <3>1, <3>2, Zenon DEF ReplicaStep
  <2>11. Idle.phase # "response"
    BY DEF Idle
  <2> QED BY <2>7, <2>8, <2>9, <2>10, <2>11, Zenon DEF CRDTViewNext
<1> QED BY <1>1, CRDTViewInductive, PTL DEF CRDTViewSpec, PartitionHolds
=============================================================================
