---------------------------- MODULE PlacementLog ----------------------------
(***************************************************************************)
(* The placement history: after each dispatch the relay proposes an entry  *)
(* to the raft log, and the FSM of every scheduler applies the committed   *)
(* entries, keeping their number and the newest of them.  Snapshots stand  *)
(* in for the entries they cover, on a restart and on a member that fell   *)
(* behind.  What raft itself promises, one committed log whose entries     *)
(* every member applies in order, is taken as given.                       *)
(***************************************************************************)
EXTENDS Naturals, FiniteSets, Sequences

CONSTANTS Nodes,                 \* the schedulers
          Placements,            \* one value per dispatch: job, worker and time
          maxRecentPlacements,   \* fsm.go: 16
          MaxStops               \* bound on processes that stop

ASSUME PlacementAssumption ==
  /\ maxRecentPlacements \in Nat \ {0}
  /\ MaxStops \in Nat

VARIABLES up,         \* up[n]: the process runs
          log,        \* the committed placement entries
          proposed,   \* proposed and neither committed nor lost
          fsm,        \* fsm[n]: the FSM's count and recent placements
          applied,    \* applied[n]: how many entries of log it stands for
          snapshot,   \* snapshot[n]: the newest stored snapshot
          stops

logVars == <<up, log, proposed, fsm, applied, snapshot, stops>>

FSMState == [count : Nat, recent : Seq(Placements)]

NewState == [count |-> 0, recent |-> << >>]

Newest(s) ==
  IF Len(s) > maxRecentPlacements
  THEN SubSeq(s, Len(s) - maxRecentPlacements + 1, Len(s))
  ELSE s

\* Mutant: the oldest placements are kept.
ApplyKeepsOldest(st, p) ==
  [count  |-> st.count + 1,
   recent |-> IF Len(st.recent) < maxRecentPlacements THEN Append(st.recent, p) ELSE st.recent]

\* placementFSM.Apply
ApplyEntry(st, p) == [count |-> st.count + 1, recent |-> Newest(Append(st.recent, p))]

-----------------------------------------------------------------------------
\* The relay of a scheduler proposes a placement.  It waits for the outcome but
\* only logs an error, and never retries.  A follower's raft.Apply fails at once.
ApplyPlacement(n, p) ==
  /\ up[n]
  /\ p \notin proposed /\ \A i \in DOMAIN log : log[i] # p
  /\ proposed' = proposed \cup {p}
  /\ UNCHANGED <<up, log, fsm, applied, snapshot, stops>>

\* A majority stored the entry, perhaps long after ApplyPlacement timed out and
\* under another leader ...
Commit(p) ==
  /\ p \in proposed
  /\ log' = Append(log, p)
  /\ proposed' = proposed \ {p}
  /\ UNCHANGED <<up, fsm, applied, snapshot, stops>>

\* ... or it is lost with the leader that had it.
Discard(p) ==
  /\ p \in proposed
  /\ proposed' = proposed \ {p}
  /\ UNCHANGED <<up, log, fsm, applied, snapshot, stops>>

Apply(n) ==
  /\ up[n] /\ applied[n] < Len(log)
  /\ fsm' = [fsm EXCEPT ![n] = ApplyEntry(fsm[n], log[applied[n] + 1])]
  /\ applied' = [applied EXCEPT ![n] = applied[n] + 1]
  /\ UNCHANGED <<up, log, proposed, snapshot, stops>>

\* Snapshot and Persist.  When writing fails, the previous one stays.
Snapshot(n) ==
  /\ up[n] /\ applied[n] > snapshot[n].index
  /\ snapshot' = [snapshot EXCEPT ![n] = [index |-> applied[n], state |-> fsm[n]]]
  /\ UNCHANGED <<up, log, proposed, fsm, applied, stops>>

\* Mutant: Restore adds to the state instead of replacing it.
RestoreAppends(n, snap) ==
  /\ fsm' = [fsm EXCEPT ![n] = [count  |-> fsm[n].count + snap.state.count,
                                recent |-> Newest(fsm[n].recent \o snap.state.recent)]]
  /\ applied' = [applied EXCEPT ![n] = snap.index]

Restore(n, snap) ==
  /\ fsm' = [fsm EXCEPT ![n] = snap.state]
  /\ applied' = [applied EXCEPT ![n] = snap.index]

\* The leader m has discarded entries that n lacks and sends its snapshot instead.
InstallSnapshot(n, m) ==
  /\ up[n] /\ up[m]
  /\ snapshot[m].index > applied[n]
  /\ Restore(n, snapshot[m])
  /\ snapshot' = [snapshot EXCEPT ![n] = snapshot[m]]
  /\ UNCHANGED <<up, log, proposed, stops>>

Shutdown(n) ==
  /\ up[n] /\ stops < MaxStops
  /\ up' = [up EXCEPT ![n] = FALSE]
  /\ stops' = stops + 1
  /\ UNCHANGED <<log, proposed, fsm, applied, snapshot>>

\* raftnode.New: a new FSM, restored from the stored snapshot if there is one.
Start(n) ==
  /\ ~up[n]
  /\ up' = [up EXCEPT ![n] = TRUE]
  /\ Restore(n, snapshot[n])
  /\ UNCHANGED <<log, proposed, snapshot, stops>>

LogInit ==
  /\ up = [n \in Nodes |-> TRUE]
  /\ log = << >>
  /\ proposed = {}
  /\ fsm = [n \in Nodes |-> NewState]
  /\ applied = [n \in Nodes |-> 0]
  /\ snapshot = [n \in Nodes |-> [index |-> 0, state |-> NewState]]
  /\ stops = 0

LogNext ==
  \/ \E n \in Nodes :
       \/ Apply(n) \/ Snapshot(n) \/ Shutdown(n) \/ Start(n)
       \/ \E m \in Nodes : InstallSnapshot(n, m)
       \/ \E p \in Placements : ApplyPlacement(n, p)
  \/ \E p \in proposed : Commit(p) \/ Discard(p)

LogSpec == LogInit /\ [][LogNext]_logVars

\* A running member catches up, and one that stopped is started again.
CatchUp(n) == Apply(n) \/ Start(n)

LogFairness == \A n \in Nodes : WF_logVars(CatchUp(n))

-----------------------------------------------------------------------------
(***************************************************************************)
(* Properties                                                              *)
(***************************************************************************)

LogTypeOK ==
  /\ up \in [Nodes -> BOOLEAN]
  /\ log \in Seq(Placements) /\ proposed \subseteq Placements
  /\ fsm \in [Nodes -> FSMState]
  /\ applied \in [Nodes -> Nat]
  /\ snapshot \in [Nodes -> [index : Nat, state : FSMState]]
  /\ stops \in 0..MaxStops

\* The newest of the first k entries of s.
First(k) == IF k > maxRecentPlacements THEN k - maxRecentPlacements + 1 ELSE 1

Window(s, k) == SubSeq(s, First(k), k)

\* What an FSM holds after the first k entries of the log.
Replay(k) == [count |-> k, recent |-> Window(log, k)]

\* README "Every node's recent_placements list is identical - that's the
\* replicated log applied on all three FSMs": whatever was restored from which
\* snapshot and applied since, every FSM holds the number and the newest of the
\* placements in a prefix of one log, and so does every stored snapshot.
HistoryIsReplay ==
  \A n \in Nodes :
    /\ applied[n] <= Len(log) /\ fsm[n] = Replay(applied[n])
    /\ snapshot[n].index <= Len(log) /\ snapshot[n].state = Replay(snapshot[n].index)

\* README "restart the whole cluster and the term and placement history carry
\* over": when the log no longer grows, every FSM comes to hold all of it.
EventuallyIdentical ==
  \A k \in 0..Cardinality(Placements) :
    <>[](Len(log) = k) => <>[](\A n \in Nodes : applied[n] = k /\ fsm[n] = Replay(k))
=============================================================================
