---------------------------- MODULE StateManager ----------------------------
(***************************************************************************)
(* The statemanager replicas.  Workers report the outcome of each job to   *)
(* the replica they are configured with; replicas exchange their whole     *)
(* state, pairwise and without coordination, and merge what they receive.  *)
(* Gossip can be switched off per replica, calls can time out although the *)
(* peer still serves them, and a restarted replica has lost everything.    *)
(***************************************************************************)
EXTENDS CRDT, FiniteSetsExt

CONSTANTS Home,          \* Home[w]: the replica worker w reports to
          Clock,         \* Clock[r]: the readings (TSUnixMS) replica r may stamp a report with
          MaxReports,    \* bound on reports
          FaultKinds,    \* "partition", "timeout", "restart"
          MaxFaults      \* bound on faults

ASSUME StateManagerAssumption ==
  /\ Home \in [Workers -> Replicas]
  /\ Clock \in [Replicas -> SUBSET Nat]
  /\ MaxReports \in Nat /\ MaxFaults \in Nat

VARIABLES state,      \* state[r]: byStatus, byWorker and recent of replica r
          gossipOn,   \* gossipOn[r]
          todo,       \* todo[r]: peers left in the current gossip round of r
          wire,       \* wire[r]: the SyncState call r has open, or Idle
          late,       \* requests whose caller gave up
          faults,
          (* History: what the properties compare the state with. *)
          reports,    \* reports so far
          ingested,   \* ingested[r][o]: reports of outcome o served by r
          seen,       \* seen[r]: every <<job, entry>> r was told of since it started
          restarted   \* replicas that lost their state at some time

dataVars == <<state, seen>>
roundVars == <<todo, wire, late>>
reportVars == <<reports, ingested>>
vars == <<dataVars, gossipOn, roundVars, faults, reportVars, restarted>>

CRDTState ==
  [byStatus : [Outcome -> GCounter], byWorker : [Workers -> GCounter], recent : LWWMap]

Empty == [byStatus |-> [o \in Outcome |-> NewGCounter],
          byWorker |-> [w \in Workers |-> NewGCounter],
          recent   |-> NewLWWMap]

Idle == [phase |-> "idle"]

Request == [phase : {"request"}, to : Replicas, state : CRDTState]

Response == [phase : {"response"}, to : Replicas, state : CRDTState]

Fault(kind) ==
  /\ kind \in FaultKinds
  /\ faults < MaxFaults
  /\ faults' = faults + 1

-----------------------------------------------------------------------------
mergeCounters(m, n) == [k \in DOMAIN m |-> MergeCounter(m[k], n[k])]

\* Mutant: the per-worker counters are left out.
MergeWithoutWorkers(s, t) ==
  {[byStatus |-> mergeCounters(s.byStatus, t.byStatus),
    byWorker |-> s.byWorker,
    recent   |-> m] : m \in MergeMap(s.recent, t.recent)}

\* The states mergeLocked may turn s into, given the peer's state t.
mergeLocked(s, t) ==
  {[byStatus |-> mergeCounters(s.byStatus, t.byStatus),
    byWorker |-> mergeCounters(s.byWorker, t.byWorker),
    recent   |-> m] : m \in MergeMap(s.recent, t.recent)}

Entries(m) == {<<k, m[k]>> : k \in Keys(m)}

\* Replica r merges the state t it received.
Absorb(r, t) ==
  /\ \E s \in mergeLocked(state[r], t) : state' = [state EXCEPT ![r] = s]
  /\ seen' = [seen EXCEPT ![r] = @ \cup Entries(t.recent)]

\* Mutant: a second report of a job is taken for a repetition, but only by the
\* counter of its status.
ReportCountedOnce(r, j, w, o, ts) ==
  LET e == [status |-> o, worker |-> w, ts |-> ts, replica |-> r] IN
  /\ reports < MaxReports
  /\ reports' = reports + 1
  /\ \E m \in Set(state[r].recent, j, e) :
       state' = [state EXCEPT ![r] =
         [byStatus |-> IF j \in Keys(state[r].recent) THEN state[r].byStatus
                       ELSE [state[r].byStatus EXCEPT ![o] = Inc(@, r)],
          byWorker |-> [state[r].byWorker EXCEPT ![w] = Inc(@, r)],
          recent   |-> m]]
  /\ ingested' = [ingested EXCEPT ![r][o] = @ + 1]
  /\ seen' = [seen EXCEPT ![r] = @ \cup {<<j, e>>}]
  /\ UNCHANGED <<gossipOn, roundVars, faults, restarted>>

\* Replica r serves the report that worker w finished job j with outcome o.
ReportJobEvent(r, j, w, o, ts) ==
  LET e == [status |-> o, worker |-> w, ts |-> ts, replica |-> r] IN
  /\ reports < MaxReports
  /\ reports' = reports + 1
  /\ \E m \in Set(state[r].recent, j, e) :
       state' = [state EXCEPT ![r] =
         [byStatus |-> [state[r].byStatus EXCEPT ![o] = Inc(@, r)],
          byWorker |-> [state[r].byWorker EXCEPT ![w] = Inc(@, r)],
          recent   |-> m]]
  /\ ingested' = [ingested EXCEPT ![r][o] = @ + 1]
  /\ seen' = [seen EXCEPT ![r] = @ \cup {<<j, e>>}]
  /\ UNCHANGED <<gossipOn, roundVars, faults, restarted>>

\* The worker sends one report per finished run, to its own replica.  It does not
\* retry and ignores errors: a report that is lost is one that never happens here.
Report(w, j, o) ==
  \E ts \in Clock[Home[w]] : ReportJobEvent(Home[w], j, w, o, ts)

-----------------------------------------------------------------------------
(* The gossip loop of replica r. *)

\* The next peer, in name order, is called with a snapshot.  A round begins when
\* the ticker fires, and gossipOn is looked at once for the whole round.
Send(r) ==
  LET peers == IF todo[r] = {} THEN Replicas \ {r} ELSE todo[r] IN
  /\ wire[r] = Idle
  /\ todo[r] = {} => gossipOn[r]
  /\ \E p \in peers :
       /\ \A q \in peers : p <= q
       /\ wire' = [wire EXCEPT ![r] = [phase |-> "request", to |-> p, state |-> state[r]]]
       /\ todo' = [todo EXCEPT ![r] = peers \ {p}]
  /\ UNCHANGED <<dataVars, gossipOn, late, faults, reportVars, restarted>>

\* The peer serves the call: it merges and answers with the result, or refuses.
SyncState(r) ==
  /\ wire[r].phase = "request"
  /\ UNCHANGED <<gossipOn, todo, late, faults, reportVars, restarted>>
  /\ LET p == wire[r].to IN
     \/ /\ gossipOn[p]
        /\ Absorb(p, wire[r].state)
        /\ wire' = [wire EXCEPT ![r] = [phase |-> "response", to |-> p, state |-> state'[p]]]
     \/ /\ ~gossipOn[p]
        /\ wire' = [wire EXCEPT ![r] = Idle]
        /\ UNCHANGED dataVars

\* The answer is merged, whether or not gossip has been switched off since.
Receive(r) ==
  /\ wire[r].phase = "response"
  /\ UNCHANGED <<gossipOn, todo, late, faults, reportVars, restarted>>
  /\ wire' = [wire EXCEPT ![r] = Idle]
  /\ Absorb(r, wire[r].state)

\* The caller of c is gone: a request on its way may still be served.
LeftBehind(c) == {late} \cup {late \cup {x} : x \in {y \in {c} : y.phase = "request"}}

\* perPeerTimeout, or the connection breaks.
CallFails(r) ==
  /\ wire[r] # Idle
  /\ Fault("timeout")
  /\ late' \in LeftBehind(wire[r])
  /\ wire' = [wire EXCEPT ![r] = Idle]
  /\ UNCHANGED <<dataVars, gossipOn, todo, reportVars, restarted>>

\* SyncState for a caller that is gone: the answer is dropped.
LateSync(c) ==
  /\ c \in late
  /\ late' = late \ {c}
  /\ IF gossipOn[c.to] THEN Absorb(c.to, c.state) ELSE UNCHANGED dataVars
  /\ UNCHANGED <<gossipOn, todo, wire, faults, reportVars, restarted>>

-----------------------------------------------------------------------------
\* The dashboard reaches replica r with one call of its partition or heal fan-out.
SetGossip(r, enabled) ==
  /\ gossipOn[r] # enabled
  /\ IF enabled THEN UNCHANGED faults ELSE Fault("partition")
  /\ gossipOn' = [gossipOn EXCEPT ![r] = enabled]
  /\ UNCHANGED <<dataVars, roundVars, reportVars, restarted>>

\* The process is killed and started again.  Calls to it break.
Restart(r) ==
  /\ Fault("restart")
  /\ state' = [state EXCEPT ![r] = Empty]
  /\ seen' = [seen EXCEPT ![r] = {}]
  /\ gossipOn' = [gossipOn EXCEPT ![r] = TRUE]
  /\ todo' = [todo EXCEPT ![r] = {}]
  /\ wire' = [q \in Replicas |->
                IF q = r \/ (wire[q].phase = "request" /\ wire[q].to = r) THEN Idle ELSE wire[q]]
  /\ \E L \in LeftBehind(wire[r]) : late' = {c \in L : c.to # r}
  /\ restarted' = restarted \cup {r}
  /\ UNCHANGED reportVars

-----------------------------------------------------------------------------
Init ==
  /\ state = [r \in Replicas |-> Empty]
  /\ gossipOn = [r \in Replicas |-> TRUE]
  /\ todo = [r \in Replicas |-> {}]
  /\ wire = [r \in Replicas |-> Idle]
  /\ late = {}
  /\ faults = 0
  /\ reports = 0
  /\ ingested = [r \in Replicas |-> [o \in Outcome |-> 0]]
  /\ seen = [r \in Replicas |-> {}]
  /\ restarted = {}

Next ==
  \/ \E w \in Workers, j \in Jobs, o \in Outcome : Report(w, j, o)
  \/ \E r \in Replicas :
       \/ Send(r) \/ SyncState(r) \/ Receive(r)
       \/ CallFails(r) \/ Restart(r)
       \/ \E enabled \in BOOLEAN : SetGossip(r, enabled)
  \/ \E c \in late : LateSync(c)

Spec == Init /\ [][Next]_vars

\* The ticker fires again and again, and every call ends.
Fairness == \A r \in Replicas : WF_vars(Send(r) \/ SyncState(r) \/ Receive(r))

FairSpec == Spec /\ Fairness

-----------------------------------------------------------------------------
(***************************************************************************)
(* Properties                                                              *)
(***************************************************************************)

\* Every variable has the type the code gives it; no replica keeps more than
\* RecentLimit recent outcomes.
TypeOK ==
  /\ state \in [Replicas -> CRDTState]
  /\ \A r \in Replicas : Cardinality(Keys(state[r].recent)) <= RecentLimit
  /\ gossipOn \in [Replicas -> BOOLEAN]
  /\ todo \in [Replicas -> SUBSET Replicas]
  /\ wire \in [Replicas -> {Idle} \cup Request \cup Response]
  /\ late \subseteq Request
  /\ faults \in 0..MaxFaults
  /\ reports \in 0..MaxReports
  /\ ingested \in [Replicas -> [Outcome -> Nat]]
  /\ seen \in [Replicas -> SUBSET (Jobs \X LWWEntry)]
  /\ restarted \subseteq Replicas

\* crdt.go GCounter.Merge takes the maximum: however often and in whatever order
\* states are exchanged, also across restarts, no replica counts more of r's
\* reports than r has served.
NeverOvercounts ==
  \A q, r \in Replicas : \A o \in Outcome : state[q].byStatus[o][r] <= ingested[r][o]

\* statesvc.go ReportJobEvent increments a status and a worker counter under one
\* lock, but they are merged counter by counter: on every replica the two views
\* count the same number of r's reports, if r never lost its state.
ViewsAgree ==
  \A q \in Replicas : \A r \in Replicas \ restarted :
    MapThenSumSet(LAMBDA o : state[q].byStatus[o][r], Outcome)
      = MapThenSumSet(LAMBDA w : state[q].byWorker[w][r], Workers)

\* Nobody has counted as many of r's reports of outcome o as r now does.
IsNews(r, o) == \A q \in Replicas : state'[r].byStatus[o][r] > state[q].byStatus[o][r]

\* crdt.go "each replica increments only its own shard, so concurrent increments
\* never conflict": a report served by a replica that never lost its state adds
\* to what the replicas together know.
IncrementCounts ==
  [][\A r \in Replicas \ restarted : \A o \in Outcome :
       ingested'[r][o] > ingested[r][o] => IsNews(r, o)]_vars

\* README "no increment lost ... Kill and restart a replica and it rejoins empty,
\* catching up to full state": the same of every replica.
NoIncrementLost ==
  [][\A r \in Replicas : \A o \in Outcome :
       ingested'[r][o] > ingested[r][o] => IsNews(r, o)]_vars

\* crdt.go LWWMap "bounded to the newest limit entries", although entries are
\* pruned, come back by merges and are pruned again: the window of a replica holds
\* the winning entries of the newest jobs among all it was told of.
WindowIsNewest ==
  \A r \in Replicas :
    LET m == state[r].recent IN
    /\ Entries(m) \subseteq seen[r]
    /\ \A x \in seen[r] :
         IF x[1] \in Keys(m) THEN ~wins(x[2], m[x[1]])
         ELSE /\ Cardinality(Keys(m)) = RecentLimit
              /\ \A k \in Keys(m) : ~wins(x[2], m[k])

\* Two reports of one replica in the same millisecond: neither entry wins.
Tied ==
  \E x, y \in UNION {seen[r] : r \in Replicas} :
    x # y /\ x[2].ts = y[2].ts /\ x[2].replica = y[2].replica

CountersAgree ==
  \A q, r \in Replicas :
    state[q].byStatus = state[r].byStatus /\ state[q].byWorker = state[r].byWorker

WindowsAgree == \A q, r \in Replicas : state[q].recent = state[r].recent

\* crdt.go "replicas converge regardless of exchange order or repetition": once
\* every replica gossips for good, all of them come to hold the same counters
\* and, unless reports were tied, the same window, and keep holding them.
EventuallyConverged ==
  <>[](\A r \in Replicas : gossipOn[r]) => <>[](CountersAgree /\ (Tied \/ WindowsAgree))
=============================================================================
