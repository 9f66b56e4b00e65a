-------------------------- MODULE SchedulersProofs --------------------------
(***************************************************************************)
(* Theorems about what the schedulers know: the replicated log of          *)
(* placements, and the heartbeats that tell them of the workers.           *)
(***************************************************************************)
EXTENDS PlacementLog, Heartbeats, TLAPS

(***************************************************************************)
(* PlacementLog, for any group, any window and any number of entries,      *)
(* snapshots and restarts.                                                 *)
(***************************************************************************)

\* The window on the first k entries, entry by entry.
LEMMA WindowEntries ==
  ASSUME NEW s \in Seq(Placements), NEW k \in 0..Len(s)
  PROVE  /\ Window(s, k) \in Seq(Placements)
         /\ Len(Window(s, k)) = IF k > maxRecentPlacements THEN maxRecentPlacements ELSE k
         /\ \A i \in 1..Len(Window(s, k)) : Window(s, k)[i] = s[First(k) + i - 1]
<1>1. First(k) \in Nat /\ First(k) >= 1 /\ k \in Nat
  BY PlacementAssumption DEF First
<1>2. \A i \in First(k)..k : s[i] \in Placements
  BY <1>1
<1>3. /\ SubSeq(s, First(k), k) \in Seq(Placements)
      /\ Len(SubSeq(s, First(k), k)) = IF First(k) <= k THEN k - First(k) + 1 ELSE 0
      /\ \A i \in 1..(k - First(k) + 1) : SubSeq(s, First(k), k)[i] = s[First(k) + i - 1]
  BY <1>1, <1>2
<1>4. (IF First(k) <= k THEN k - First(k) + 1 ELSE 0)
        = IF k > maxRecentPlacements THEN maxRecentPlacements ELSE k
  BY PlacementAssumption DEF First
<1>5. \A i \in 1..Len(Window(s, k)) : i \in 1..(k - First(k) + 1)
  BY <1>1, <1>3 DEF Window
<1> QED BY <1>3, <1>4, <1>5 DEF Window

LEMMA DropFirst ==
  ASSUME NEW a \in Seq(Placements), NEW K \in Nat, K >= 1, Len(a) = K + 1
  PROVE  /\ SubSeq(a, 2, K + 1) \in Seq(Placements)
         /\ Len(SubSeq(a, 2, K + 1)) = K
         /\ \A i \in 1..K : SubSeq(a, 2, K + 1)[i] = a[i + 1]
<1>1. \A i \in 2..(K + 1) : a[i] \in Placements
  OBVIOUS
<1>2. 2 \in Nat /\ K + 1 \in Nat
  OBVIOUS
<1>3. /\ SubSeq(a, 2, K + 1) \in Seq(Placements)
      /\ Len(SubSeq(a, 2, K + 1)) = IF 2 <= K + 1 THEN K + 1 - 2 + 1 ELSE 0
      /\ \A i \in 1..(K + 1 - 2 + 1) : SubSeq(a, 2, K + 1)[i] = a[2 + i - 1]
  BY <1>1, <1>2
<1>4. \A i \in 1..K : i \in 1..(K + 1 - 2 + 1) /\ 2 + i - 1 = i + 1
  OBVIOUS
<1> QED BY <1>3, <1>4

\* Apply's append and trim moves the window by one entry.
LEMMA WindowMoves ==
  ASSUME NEW s \in Seq(Placements), NEW k \in 0..Len(s), k < Len(s)
  PROVE  Newest(Append(Window(s, k), s[k + 1])) = Window(s, k + 1)
<1> DEFINE K == maxRecentPlacements
           v == Window(s, k)
           a == Append(v, s[k + 1])
           w == Window(s, k + 1)
<1>1. K \in Nat /\ K >= 1 /\ Len(s) \in Nat /\ k \in Nat /\ k + 1 \in 0..Len(s) /\ k + 1 \in 1..Len(s)
  BY PlacementAssumption
<1>2. /\ v \in Seq(Placements) /\ Len(v) = IF k > K THEN K ELSE k
      /\ \A i \in 1..Len(v) : v[i] = s[First(k) + i - 1]
  BY WindowEntries
<1>3. /\ w \in Seq(Placements) /\ Len(w) = IF k + 1 > K THEN K ELSE k + 1
      /\ \A i \in 1..Len(w) : w[i] = s[First(k + 1) + i - 1]
  BY <1>1, WindowEntries
<1>4. s[k + 1] \in Placements
  BY <1>1
<1> HIDE DEF v, w
<1>5. /\ a \in Seq(Placements) /\ Len(a) = Len(v) + 1
      /\ \A i \in 1..Len(v) : a[i] = v[i]
      /\ a[Len(v) + 1] = s[k + 1]
  BY <1>2, <1>4
<1> HIDE DEF a
<1>6. CASE k + 1 <= K
  <2>1. Newest(a) = a /\ Len(a) = Len(w)
    BY <1>1, <1>2, <1>3, <1>5, <1>6 DEF Newest
  <2>2. First(k) = 1 /\ First(k + 1) = 1
    BY <1>1, <1>6 DEF First
  <2>3. \A i \in 1..Len(a) : a[i] = w[i]
    <3> SUFFICES ASSUME NEW i \in 1..Len(a) PROVE a[i] = w[i]
      OBVIOUS
    <3>1. w[i] = s[1 + i - 1] /\ i \in Nat /\ 1 + i - 1 = i
      BY <1>1, <1>3, <2>1, <2>2
    <3>2. CASE i = k + 1
      BY <1>1, <1>2, <1>5, <1>6, <3>1, <3>2
    <3>3. CASE i # k + 1
      <4>1. i \in 1..Len(v)
        BY <1>1, <1>2, <1>5, <1>6, <3>3
      <4>2. a[i] = s[1 + i - 1]
        BY <1>2, <1>5, <2>2, <4>1
      <4> QED BY <3>1, <4>2
    <3> QED BY <3>2, <3>3
  <2>4. a = w
    BY <1>3, <1>5, <2>1, <2>3
  <2> QED BY <2>1, <2>4 DEF a, v, w
<1>7. CASE k + 1 > K
  <2> DEFINE b == SubSeq(a, 2, K + 1)
  <2>1. Len(v) = K /\ Len(a) = K + 1 /\ Len(w) = K
    BY <1>1, <1>2, <1>3, <1>5, <1>7
  <2>2. Newest(a) = b
    BY <1>1, <2>1 DEF Newest
  <2>3. b \in Seq(Placements) /\ Len(b) = K /\ \A i \in 1..K : b[i] = a[i + 1]
    BY <1>1, <1>5, <2>1, DropFirst
  <2> HIDE DEF b
  <2>4. First(k + 1) = k + 1 - K + 1 /\ First(k) = IF k > K THEN k - K + 1 ELSE 1
    BY <1>1, <1>7 DEF First
  <2>5. \A i \in 1..K : b[i] = w[i]
    <3> SUFFICES ASSUME NEW i \in 1..K PROVE b[i] = w[i]
      OBVIOUS
    <3>1. b[i] = a[i + 1] /\ w[i] = s[First(k + 1) + i - 1]
      BY <1>3, <2>1, <2>3, Zenon
    <3>2. CASE i = K
      <4>1. First(k + 1) + i - 1 = k + 1
        BY <1>1, <2>4, <3>2
      <4> QED BY <1>5, <2>1, <3>1, <3>2, <4>1
    <3>3. CASE i # K
      <4>1. i + 1 \in 1..Len(v)
        BY <1>1, <2>1, <3>3
      <4>2. a[i + 1] = s[First(k) + (i + 1) - 1]
        BY <1>2, <1>5, <4>1
      <4>3. First(k) + (i + 1) - 1 = First(k + 1) + i - 1
        BY <1>1, <1>7, <2>4
      <4> QED BY <3>1, <4>2, <4>3
    <3> QED BY <3>2, <3>3
  <2>6. b = w
    BY <1>3, <2>1, <2>3, <2>5
  <2> QED BY <2>2, <2>6 DEF a, v, w
<1> QED BY <1>1, <1>6, <1>7

\* New entries leave the windows on the old ones alone.
LEMMA WindowStays ==
  ASSUME NEW s \in Seq(Placements), NEW p \in Placements, NEW k \in 0..Len(s)
  PROVE  Window(Append(s, p), k) = Window(s, k)
<1> DEFINE a == Append(s, p)
<1>1. /\ a \in Seq(Placements) /\ Len(a) = Len(s) + 1
      /\ \A i \in 1..Len(s) : a[i] = s[i]
  OBVIOUS
<1>2. Len(s) \in Nat /\ k \in 0..Len(a)
  BY <1>1
<1> HIDE DEF a
<1>3. /\ Window(s, k) \in Seq(Placements)
      /\ Len(Window(s, k)) = IF k > maxRecentPlacements THEN maxRecentPlacements ELSE k
      /\ \A i \in 1..Len(Window(s, k)) : Window(s, k)[i] = s[First(k) + i - 1]
  BY WindowEntries
<1>4. /\ Window(a, k) \in Seq(Placements)
      /\ Len(Window(a, k)) = IF k > maxRecentPlacements THEN maxRecentPlacements ELSE k
      /\ \A i \in 1..Len(Window(a, k)) : Window(a, k)[i] = a[First(k) + i - 1]
  BY <1>1, <1>2, WindowEntries
<1>5. \A i \in 1..Len(Window(s, k)) : First(k) + i - 1 \in 1..Len(s)
  BY <1>2, <1>3, PlacementAssumption DEF First
<1>6. \A i \in 1..Len(Window(a, k)) : Window(a, k)[i] = Window(s, k)[i]
  BY <1>1, <1>3, <1>4, <1>5, Zenon
<1>7. Len(Window(a, k)) = Len(Window(s, k))
  BY <1>3, <1>4
<1> QED BY <1>3, <1>4, <1>6, <1>7 DEF a

-----------------------------------------------------------------------------
(* HistoryIsReplay is inductive, given the types. *)

LogInv == LogTypeOK /\ HistoryIsReplay

LEMMA ReplayType ==
  ASSUME LogTypeOK, NEW k \in 0..Len(log)
  PROVE  Replay(k) \in FSMState
<1>1. Window(log, k) \in Seq(Placements) /\ k \in Nat
  BY WindowEntries DEF LogTypeOK
<1> QED BY <1>1 DEF Replay, FSMState

LEMMA InitLogInv == LogInit => LogInv
<1> SUFFICES ASSUME LogInit PROVE LogInv
  OBVIOUS
<1>1. << >> \in Seq(Placements) /\ Len(<< >>) = 0
  OBVIOUS
<1>2. NewState \in FSMState
  BY <1>1 DEF NewState, FSMState
<1>3. LogTypeOK
  BY <1>1, <1>2, PlacementAssumption DEF LogInit, LogTypeOK
<1>4. Window(<< >>, 0) = << >>
  <2>1. First(0) = 1
    BY PlacementAssumption DEF First
  <2> QED BY <2>1 DEF Window
<1>5. Replay(0) = NewState
  BY <1>4 DEF LogInit, Replay, NewState
<1> QED BY <1>1, <1>3, <1>5 DEF LogInit, LogInv, HistoryIsReplay

\* A step that leaves the log alone and gives one node a state that stands for
\* what it says.
LEMMA NodeUpdate ==
  ASSUME LogInv, LogTypeOK', log' = log,
         \A n \in Nodes :
           \/ fsm'[n] = fsm[n] /\ applied'[n] = applied[n]
           \/ applied'[n] <= Len(log) /\ fsm'[n] = Replay(applied'[n]),
         \A n \in Nodes :
           \/ snapshot'[n] = snapshot[n]
           \/ snapshot'[n].index <= Len(log) /\ snapshot'[n].state = Replay(snapshot'[n].index)
  PROVE  LogInv'
<1>1. \A k : Replay(k)' = Replay(k)
  BY DEF Replay
<1> QED BY <1>1 DEF LogInv, HistoryIsReplay

LEMMA NextLogInv ==
  ASSUME LogInv, [LogNext]_logVars
  PROVE  LogInv'
<1> USE DEF LogInv
<1>1. CASE UNCHANGED logVars
  BY <1>1 DEF logVars, LogTypeOK, HistoryIsReplay, Replay
<1>2. ASSUME NEW n \in Nodes, Apply(n) PROVE LogInv'
  <2>1. applied[n] \in 0..Len(log) /\ applied[n] < Len(log) /\ Len(log) \in Nat /\ applied[n] \in Nat
    BY <1>2 DEF Apply, LogTypeOK, HistoryIsReplay
  <2>2. ApplyEntry(fsm[n], log[applied[n] + 1]) = Replay(applied[n] + 1)
    <3>1. fsm[n] = Replay(applied[n]) /\ log \in Seq(Placements)
      BY DEF HistoryIsReplay, LogTypeOK
    <3>2. Newest(Append(Window(log, applied[n]), log[applied[n] + 1])) = Window(log, applied[n] + 1)
      BY <2>1, <3>1, WindowMoves
    <3> QED BY <3>1, <3>2 DEF ApplyEntry, Replay
  <2>3. applied[n] + 1 \in 0..Len(log) /\ applied[n] + 1 \in Nat
    BY <2>1
  <2>4. Replay(applied[n] + 1) \in FSMState
    BY <2>3, ReplayType
  <2>5. /\ fsm' = [fsm EXCEPT ![n] = Replay(applied[n] + 1)]
        /\ applied' = [applied EXCEPT ![n] = applied[n] + 1]
        /\ UNCHANGED <<up, log, proposed, snapshot, stops>>
    BY <1>2, <2>2 DEF Apply
  <2>6. LogTypeOK'
    BY <2>3, <2>4, <2>5 DEF LogTypeOK
  <2> QED BY <2>3, <2>5, <2>6, NodeUpdate DEF LogTypeOK
<1>3. ASSUME NEW n \in Nodes, Snapshot(n) PROVE LogInv'
  <2>1. /\ snapshot' = [snapshot EXCEPT ![n] = [index |-> applied[n], state |-> fsm[n]]]
        /\ UNCHANGED <<up, log, proposed, fsm, applied, stops>>
    BY <1>3 DEF Snapshot
  <2>2. LogTypeOK'
    BY <2>1 DEF LogTypeOK
  <2> QED BY <2>1, <2>2, NodeUpdate, SMTT(20) DEF LogTypeOK, HistoryIsReplay
<1>4. ASSUME NEW n \in Nodes, NEW m \in Nodes, InstallSnapshot(n, m) PROVE LogInv'
  <2>1. /\ fsm' = [fsm EXCEPT ![n] = snapshot[m].state]
        /\ applied' = [applied EXCEPT ![n] = snapshot[m].index]
        /\ snapshot' = [snapshot EXCEPT ![n] = snapshot[m]]
        /\ UNCHANGED <<up, log, proposed, stops>>
    BY <1>4 DEF InstallSnapshot, Restore
  <2>2. LogTypeOK'
    BY <2>1 DEF LogTypeOK
  <2> QED BY <2>1, <2>2, NodeUpdate, SMTT(20) DEF LogTypeOK, HistoryIsReplay
<1>5. ASSUME NEW n \in Nodes, Start(n) PROVE LogInv'
  <2>1. /\ fsm' = [fsm EXCEPT ![n] = snapshot[n].state]
        /\ applied' = [applied EXCEPT ![n] = snapshot[n].index]
        /\ up' = [up EXCEPT ![n] = TRUE]
        /\ UNCHANGED <<log, proposed, snapshot, stops>>
    BY <1>5 DEF Start, Restore
  <2>2. LogTypeOK'
    BY <2>1 DEF LogTypeOK
  <2> QED BY <2>1, <2>2, NodeUpdate DEF LogTypeOK, HistoryIsReplay
<1>6. ASSUME NEW n \in Nodes,
             Shutdown(n) \/ (\E p \in Placements : ApplyPlacement(n, p))
      PROVE  LogInv'
  <2>1. UNCHANGED <<log, fsm, applied, snapshot>>
    BY <1>6 DEF Shutdown, ApplyPlacement
  <2>2. up' \in [Nodes -> BOOLEAN] /\ stops' \in 0..MaxStops /\ proposed' \subseteq Placements
    <3>1. CASE Shutdown(n)
      BY <1>6, <3>1, PlacementAssumption DEF Shutdown, LogTypeOK
    <3>2. ASSUME NEW p \in Placements, ApplyPlacement(n, p)
          PROVE  up' = up /\ stops' = stops /\ proposed' \subseteq Placements
      BY <3>2 DEF ApplyPlacement, LogTypeOK
    <3> QED BY <1>6, <3>1, <3>2 DEF LogTypeOK
  <2>3. LogTypeOK'
    BY <2>1, <2>2 DEF LogTypeOK
  <2> QED BY <2>1, <2>3, NodeUpdate
<1>7. ASSUME NEW p \in proposed, Discard(p) PROVE LogInv'
  <2>1. LogTypeOK' /\ UNCHANGED <<log, fsm, applied, snapshot>>
    BY <1>7 DEF Discard, LogTypeOK
  <2> QED BY <2>1, NodeUpdate
<1>8. ASSUME NEW p \in proposed, Commit(p) PROVE LogInv'
  <2>1. log' = Append(log, p) /\ p \in Placements /\ log \in Seq(Placements)
        /\ UNCHANGED <<up, fsm, applied, snapshot, stops>> /\ proposed' = proposed \ {p}
    BY <1>8 DEF Commit, LogTypeOK
  <2>2. log' \in Seq(Placements) /\ Len(log') = Len(log) + 1 /\ Len(log) \in Nat
    BY <2>1
  <2>3. LogTypeOK'
    BY <2>1, <2>2 DEF LogTypeOK
  <2>4. \A k \in 0..Len(log) : Window(log', k) = Window(log, k)
    BY <2>1, WindowStays
  <2>5. \A k \in 0..Len(log) : Replay(k)' = Replay(k)
    BY <2>4 DEF Replay
  <2>6. \A n \in Nodes : applied[n] \in 0..Len(log) /\ snapshot[n].index \in 0..Len(log)
    BY <2>2 DEF LogTypeOK, HistoryIsReplay
  <2>7. \A n \in Nodes : applied[n] <= Len(log') /\ snapshot[n].index <= Len(log')
    BY <2>2, <2>6
  <2> QED BY <2>1, <2>3, <2>5, <2>6, <2>7 DEF HistoryIsReplay
<1> QED BY <1>1, <1>2, <1>3, <1>4, <1>5, <1>6, <1>7, <1>8 DEF LogNext

\* fsm.go Apply, Snapshot and Restore, in any order on any number of nodes with
\* any number of restarts: every FSM, and every stored snapshot, holds exactly the
\* newest maxRecentPlacements placements of a prefix of the one committed log.
THEOREM HistoriesReplay == LogSpec => []HistoryIsReplay
<1>1. LogInit => LogInv
  BY InitLogInv
<1>2. LogInv /\ [LogNext]_logVars => LogInv'
  BY NextLogInv
<1>3. LogInv => HistoryIsReplay
  BY DEF LogInv
<1> QED BY <1>1, <1>2, <1>3, PTL DEF LogSpec

(***************************************************************************)
(* Heartbeats, for any schedulers, intervals and numbers of faults.        *)
(***************************************************************************)

\* Where the loop is, against its ticker.  A fan-out that reports a beat began
\* when the ticker fired.
Paced ==
  /\ ~running => loop = "wait" /\ \A s \in Schedulers : missed[s] = Enough
  /\ loop = "wait" => open = {} /\ (tick => timer = Interval)
  /\ loop = "beat" => timer = Interval - elapsed /\ ~tick
  /\ loop = "register" => timer = Interval /\ ~tick

\* The time in which k + 1 beats are due.
Span(k) == (k + 1) * Interval

\* How old a record can be, by the number of beats missed since.
AgeBounded ==
  \A s \in Schedulers :
    Known(s) /\ missed[s] < Enough =>
      IF loop = "register"
      THEN missed[s] = 1 /\ reg[s].age <= elapsed
      ELSE reg[s].age + timer <= Span(missed[s]) + (IF tick THEN Interval ELSE 0)

HeartbeatInv == HeartbeatTypeOK /\ Paced /\ AgeBounded

-----------------------------------------------------------------------------
LEMMA Durations ==
  /\ Interval \in Nat /\ perCallTimeout \in Nat /\ staleTTL \in Nat /\ deadTTL \in Nat
  /\ 0 < perCallTimeout /\ perCallTimeout < Interval
  /\ Capacity \in Nat \ {0} /\ Others \notin Schedulers
  /\ MaxAge \in Nat
BY HeartbeatAssumption DEF MaxAge

LEMMA InRange ==
  /\ 0 \in 0..Capacity /\ 0 \in 0..perCallTimeout /\ Interval \in 1..Interval
  /\ Enough \in 0..Enough
BY Durations DEF Enough

LEMMA SpanGrows ==
  /\ \A k \in Nat : Span(k) \in Nat /\ Span(k) >= Interval /\ Span(k + 1) = Span(k) + Interval
  /\ Span(0) <= staleTTL /\ Span(1) <= staleTTL
  /\ \A k \in 0..3 : Span(k) <= deadTTL
<1>1. \A k \in Nat, n \in Nat : /\ (k + 1) * n \in Nat /\ (k + 1) * n >= n
                              /\ (k + 1 + 1) * n = (k + 1) * n + n
  OBVIOUS
<1>2. 0..3 = {0, 1, 2, 3}
  OBVIOUS
<1> QED BY <1>1, <1>2, HeartbeatAssumption DEF Span

LEMMA MoreMissed ==
  ASSUME NEW k \in 0..Enough
  PROVE  /\ More(k) \in 0..Enough
         /\ k = Enough => More(k) = Enough
         /\ More(k) < Enough => k < Enough /\ More(k) = k + 1
BY DEF More, Enough

LEMMA LaterAge ==
  ASSUME NEW a \in 0..MaxAge
  PROVE  Later(a) \in 0..MaxAge /\ Later(a) <= a + 1
BY Durations DEF Later

-----------------------------------------------------------------------------
LEMMA InitHeartbeatInv == HeartbeatInit => HeartbeatInv
<1> SUFFICES ASSUME HeartbeatInit PROVE HeartbeatInv
  OBVIOUS
<1> USE DEF HeartbeatInit
<1>1. HeartbeatTypeOK
  BY InRange, Zenon DEF HeartbeatTypeOK
<1>2. Paced
  BY DEF Paced
<1>3. AgeBounded
  BY DEF AgeBounded, Known
<1> QED BY <1>1, <1>2, <1>3 DEF HeartbeatInv

\* Steps that touch neither the loop nor the ticker, and record nothing.
LEMMA OutsideTheLoop ==
  ASSUME HeartbeatInv, HeartbeatTypeOK',
         UNCHANGED <<running, loop, elapsed, timer, tick, missed>>,
         open' \subseteq open,
         \A s \in Schedulers : Known(s)' => reg'[s] = reg[s] /\ Known(s)
  PROVE  HeartbeatInv'
<1>1. Paced'
  BY DEF HeartbeatInv, Paced
<1>2. AgeBounded'
  BY DEF HeartbeatInv, AgeBounded
<1> QED BY <1>1, <1>2 DEF HeartbeatInv

\* A report is recorded: it is as young as the fan-out at most.
LEMMA Recorded ==
  ASSUME HeartbeatInv, HeartbeatTypeOK',
         NEW s \in Schedulers, NEW l, Record(s, l),
         UNCHANGED <<running, loop, elapsed, timer, tick>>,
         open' \subseteq open,
         missed' = [missed EXCEPT ![s] = IF ~running THEN Enough
                                         ELSE IF loop = "register" THEN 1 ELSE 0]
  PROVE  HeartbeatInv'
<1>1. HeartbeatTypeOK /\ Paced
  BY DEF HeartbeatInv
<1>2. \A q \in Schedulers : q # s => reg'[q] = reg[q] /\ missed'[q] = missed[q]
  BY <1>1 DEF Record, HeartbeatTypeOK
<1>3. /\ reg'[s].age = 0
      /\ missed'[s] = IF ~running THEN Enough ELSE IF loop = "register" THEN 1 ELSE 0
  BY <1>1 DEF Record, HeartbeatTypeOK
<1>4. Paced'
  BY <1>1, <1>2, <1>3 DEF Paced
<1>5. ASSUME NEW q \in Schedulers, Known(q)', missed'[q] < Enough
      PROVE  IF loop' = "register"
             THEN missed'[q] = 1 /\ reg'[q].age <= elapsed'
             ELSE reg'[q].age + timer' <= Span(missed'[q]) + (IF tick' THEN Interval ELSE 0)
  <2>1. CASE q # s
    BY <1>2, <1>5, <2>1 DEF HeartbeatInv, AgeBounded, Known
  <2>2. CASE q = s
    <3>1. running
      BY <1>3, <1>5, <2>2 DEF Enough
    <3>2. CASE loop = "register"
      BY <1>1, <1>3, <2>2, <3>1, <3>2 DEF HeartbeatTypeOK
    <3>3. CASE loop # "register"
      <4>1. missed'[q] = 0 /\ reg'[q].age = 0
        BY <1>3, <2>2, <3>1, <3>3
      <4>2. timer' \in Nat /\ timer' <= Interval /\ Span(0) \in Nat /\ Span(0) >= Interval
        BY <1>1, SpanGrows, Durations DEF HeartbeatTypeOK
      <4>3. 0 + timer' <= Span(0) + (IF tick' THEN Interval ELSE 0)
        BY <4>2, Durations
      <4> QED BY <3>3, <4>1, <4>3
    <3> QED BY <3>2, <3>3
  <2> QED BY <2>1, <2>2
<1>6. AgeBounded'
  BY <1>5 DEF AgeBounded
<1> QED BY <1>4, <1>6 DEF HeartbeatInv

-----------------------------------------------------------------------------
LEMMA ReportKeeps ==
  ASSUME HeartbeatInv, NEW s \in Schedulers, Deliver(s) \/ DeliverLate(s)
  PROVE  HeartbeatInv'
<1>1. HeartbeatTypeOK /\ Paced
  BY DEF HeartbeatInv
<1>2. CASE Deliver(s)
  <2>1. /\ Record(s, sample) /\ open' \subseteq open /\ s \in open
        /\ missed' = [missed EXCEPT ![s] = IF loop = "register" THEN 1 ELSE 0]
        /\ UNCHANGED <<running, load, loop, sample, elapsed, timer, tick, serving, doomed, late, calm>>
    BY <1>2 DEF Deliver
  <2>2. running
    BY <1>1, <2>1 DEF Paced
  <2>3. HeartbeatTypeOK'
    BY <1>1, <2>1, Durations DEF HeartbeatTypeOK, Record, MaxAge, Enough
  <2> QED BY <2>1, <2>2, <2>3, Recorded, Zenon
<1>3. CASE DeliverLate(s)
  <2>1. /\ Record(s, late[s]) /\ late[s] # Nothing /\ late' = [late EXCEPT ![s] = Nothing]
        /\ missed' = [missed EXCEPT ![s] = IF ~running THEN Enough
                                           ELSE IF loop = "register" THEN 1 ELSE 0]
        /\ UNCHANGED <<workerVars, serving, doomed, calm>>
    BY <1>3 DEF DeliverLate
  <2>2. HeartbeatTypeOK'
    BY <1>1, <2>1, Durations DEF HeartbeatTypeOK, Record, MaxAge, Enough, workerVars
  <2> QED BY <2>1, <2>2, Recorded, Zenon DEF workerVars
<1> QED BY <1>2, <1>3

LEMMA CallEndsKeeps ==
  ASSUME HeartbeatInv, OthersEnd \/ ChangeLoad \/ Calm \/ \E s \in Schedulers : GiveUp(s)
  PROVE  HeartbeatInv'
<1>1. HeartbeatTypeOK
  BY DEF HeartbeatInv
<1>2. CASE OthersEnd \/ Calm
  BY <1>1, <1>2, OutsideTheLoop, Zenon
  DEF OthersEnd, Calm, HeartbeatTypeOK, Known, workerVars, schedulerVars
<1>3. CASE ChangeLoad
  BY <1>1, <1>3, OutsideTheLoop DEF ChangeLoad, HeartbeatTypeOK, Known, schedulerVars
<1>4. ASSUME NEW s \in Schedulers, GiveUp(s) PROVE HeartbeatInv'
  <2>1. /\ open' \subseteq open /\ late' \in {late, [late EXCEPT ![s] = sample]}
        /\ UNCHANGED <<running, load, loop, sample, elapsed, timer, tick, schedulerVars, missed, calm>>
    BY <1>4 DEF GiveUp
  <2>2. late' \in [Schedulers -> 0..Capacity \cup {Nothing}]
    BY <1>1, <2>1 DEF HeartbeatTypeOK
  <2>3. HeartbeatTypeOK'
    BY <1>1, <2>1, <2>2 DEF HeartbeatTypeOK, schedulerVars
  <2> QED BY <2>1, <2>3, OutsideTheLoop DEF Known, schedulerVars
<1> QED BY <1>2, <1>3, <1>4

LEMMA SweepKeeps ==
  ASSUME HeartbeatInv, NEW s \in Schedulers,
         SweepFinds(s) \/ SweepForgets(s) \/ StopScheduler(s) \/ StartScheduler(s)
  PROVE  HeartbeatInv'
<1>1. HeartbeatTypeOK
  BY DEF HeartbeatInv
<1>2. /\ UNCHANGED <<workerVars, late, missed, calm>>
      /\ reg' = reg \/ reg' = [reg EXCEPT ![s] = Absent]
      /\ doomed' = doomed \/ \E b \in BOOLEAN : doomed' = [doomed EXCEPT ![s] = b]
      /\ serving' = serving \/ \E b \in BOOLEAN : serving' = [serving EXCEPT ![s] = b]
  BY Zenon DEF SweepFinds, SweepForgets, StopScheduler, StartScheduler
<1>3. HeartbeatTypeOK'
  BY <1>1, <1>2 DEF HeartbeatTypeOK, workerVars
<1>4. \A q \in Schedulers : Known(q)' => reg'[q] = reg[q] /\ Known(q)
  BY <1>1, <1>2 DEF HeartbeatTypeOK, Known
<1> QED BY <1>2, <1>3, <1>4, OutsideTheLoop DEF workerVars

-----------------------------------------------------------------------------
\* The process starts or ends: nothing is claimed of what it had sent before.
LEMMA ProcessKeeps ==
  ASSUME HeartbeatInv, Boot \/ Crash
  PROVE  HeartbeatInv'
<1>1. HeartbeatTypeOK /\ Paced
  BY DEF HeartbeatInv
<1>2. \A s \in Schedulers : missed'[s] = Enough
  BY <1>1 DEF Boot, Crash, Paced
<1>3. AgeBounded'
  <2>1. \A s \in Schedulers : ~(missed'[s] < Enough)
    BY <1>2 DEF Enough
  <2> QED BY <2>1, Zenon DEF AgeBounded
<1>4. CASE Boot
  <2>1. HeartbeatTypeOK'
    BY <1>1, <1>4, InRange, Zenon DEF HeartbeatTypeOK, Boot, FanOut, schedulerVars
  <2>2. Paced'
    BY <1>4 DEF Paced, Boot, FanOut
  <2> QED BY <1>3, <2>1, <2>2 DEF HeartbeatInv
<1>5. CASE Crash
  <2>1. PICK S \in SUBSET (open \ {Others}) :
          late' = [s \in Schedulers |-> IF s \in S THEN sample ELSE late[s]]
    BY <1>5 DEF Crash
  <2>2. late' \in [Schedulers -> 0..Capacity \cup {Nothing}]
    BY <1>1, <2>1 DEF HeartbeatTypeOK
  <2>3. missed' \in [Schedulers -> 0..Enough]
    BY <1>5 DEF Crash, Enough
  <2>4. HeartbeatTypeOK'
    BY <1>1, <1>5, <2>2, <2>3, InRange, Zenon DEF HeartbeatTypeOK, Crash, schedulerVars
  <2>5. Paced'
    BY <1>2, <1>5 DEF Paced, Crash
  <2> QED BY <1>3, <2>4, <2>5 DEF HeartbeatInv
<1> QED BY <1>4, <1>5

\* A tick is taken: one more beat is due to everyone.
LEMMA BeatKeeps ==
  ASSUME HeartbeatInv, Beat
  PROVE  HeartbeatInv'
<1>1. HeartbeatTypeOK /\ Paced
  BY DEF HeartbeatInv
<1>2. /\ running /\ loop = "wait" /\ tick /\ timer = Interval
      /\ tick' = FALSE /\ loop' = "beat" /\ sample' = load
      /\ open' = Schedulers \cup {Others} /\ elapsed' = 0
      /\ missed' = [s \in Schedulers |-> More(missed[s])]
      /\ UNCHANGED <<running, load, timer, schedulerVars, late, calm>>
  BY <1>1 DEF Beat, FanOut, Paced
<1>3. HeartbeatTypeOK'
  <2>1. missed' \in [Schedulers -> 0..Enough]
    BY <1>1, <1>2, MoreMissed DEF HeartbeatTypeOK
  <2> QED BY <1>1, <1>2, <2>1, InRange, Zenon DEF HeartbeatTypeOK, schedulerVars
<1>4. Paced'
  <2>1. timer' = Interval - elapsed'
    BY <1>2, Durations
  <2>2. running' /\ loop' = "beat" /\ ~tick'
    BY <1>2
  <2> QED BY <2>1, <2>2 DEF Paced
<1>5. AgeBounded'
  <2> SUFFICES ASSUME NEW s \in Schedulers, Known(s), missed'[s] < Enough
               PROVE  reg[s].age + timer <= Span(missed'[s]) + (IF tick' THEN Interval ELSE 0)
    BY <1>2 DEF AgeBounded, Known, schedulerVars
  <2>1. missed[s] \in Nat /\ missed[s] < Enough /\ missed'[s] = missed[s] + 1
    BY <1>1, <1>2, MoreMissed DEF HeartbeatTypeOK
  <2>2. reg[s].age + timer <= Span(missed[s]) + Interval
    BY <1>2, <2>1 DEF HeartbeatInv, AgeBounded
  <2>3. Span(missed'[s]) = Span(missed[s]) + Interval /\ Span(missed[s]) \in Nat
    BY <2>1, SpanGrows
  <2> QED BY <1>2, <2>2, <2>3, Durations
<1> QED BY <1>3, <1>4, <1>5 DEF HeartbeatInv

\* A fan-out ends.  After a registration the ticker starts: what the registration
\* recorded is younger than the time it took.
LEMMA FanOutEndsKeeps ==
  ASSUME HeartbeatInv, FanOutEnds
  PROVE  HeartbeatInv'
<1>1. HeartbeatTypeOK /\ Paced
  BY DEF HeartbeatInv
<1>2. /\ running /\ loop # "wait" /\ open = {} /\ loop' = "wait" /\ elapsed' = 0 /\ sample' = 0
      /\ timer' = IF loop = "register" THEN Interval ELSE timer
      /\ UNCHANGED <<running, load, open, tick, schedulerVars, late, missed, calm>>
  BY DEF FanOutEnds
<1>3. HeartbeatTypeOK'
  BY <1>1, <1>2, Durations DEF HeartbeatTypeOK, schedulerVars
<1>4. ~tick
  BY <1>1, <1>2 DEF Paced, HeartbeatTypeOK
<1>5. Paced'
  BY <1>2, <1>4 DEF Paced
<1>6. ASSUME NEW s \in Schedulers, Known(s), missed[s] < Enough
      PROVE  reg[s].age + timer' <= Span(missed[s])
  <2>1. CASE loop = "register"
    <3>1. missed[s] = 1 /\ reg[s].age <= elapsed
      BY <1>6, <2>1 DEF HeartbeatInv, AgeBounded
    <3>2. elapsed \in Nat /\ elapsed <= perCallTimeout /\ reg[s].age \in Nat
      BY <1>1, <1>6, Durations DEF HeartbeatTypeOK, Known
    <3>3. Span(1) = Span(0) + Interval /\ Span(0) \in Nat /\ Span(0) >= Interval
      BY SpanGrows
    <3> QED BY <1>2, <2>1, <3>1, <3>2, <3>3, Durations
  <2>2. CASE loop # "register"
    <3>1. reg[s].age + timer <= Span(missed[s]) + 0
      BY <1>4, <1>6, <2>2 DEF HeartbeatInv, AgeBounded
    <3>2. Span(missed[s]) \in Nat
      BY <1>1, SpanGrows DEF HeartbeatTypeOK
    <3> QED BY <1>2, <2>2, <3>1, <3>2
  <2> QED BY <2>1, <2>2
<1>7. AgeBounded'
  <2> SUFFICES ASSUME NEW s \in Schedulers, Known(s), missed[s] < Enough
               PROVE  reg[s].age + timer' <= Span(missed[s]) + (IF tick' THEN Interval ELSE 0)
    BY <1>2 DEF AgeBounded, Known, schedulerVars
  <2>1. missed[s] \in Nat
    BY <1>1 DEF HeartbeatTypeOK
  <2> QED BY <1>2, <1>4, <1>6, <2>1, SpanGrows
<1> QED BY <1>3, <1>5, <1>7 DEF HeartbeatInv

-----------------------------------------------------------------------------
\* Half a second: records age as the ticker runs down.  During the fan-out of a
\* beat the ticker does not fire, because the calls end before it would.
LEMMA PassKeeps ==
  ASSUME HeartbeatInv, Pass
  PROVE  HeartbeatInv'
<1>1. HeartbeatTypeOK /\ Paced
  BY DEF HeartbeatInv
<1>2. /\ elapsed' = IF open # {} THEN elapsed + 1 ELSE elapsed
      /\ reg' = [s \in Schedulers |->
                   IF Known(s) THEN [reg[s] EXCEPT !.age = Later(reg[s].age)] ELSE Absent]
      /\ UNCHANGED <<running, load, loop, sample, open, serving, doomed, late, missed, calm>>
      /\ open # {} => elapsed < perCallTimeout
  BY <1>1, Durations DEF Pass, TimedOut, HeartbeatTypeOK
<1>3. /\ running /\ loop = "wait" => ~tick
      /\ loop # "wait" => running /\ open # {} /\ ~tick
  BY <1>1 DEF Pass, Paced, HeartbeatTypeOK
<1>4. /\ timer \in Nat /\ timer >= 1 /\ timer <= Interval /\ elapsed \in Nat
      /\ elapsed <= perCallTimeout
  BY <1>1, Durations DEF HeartbeatTypeOK
<1>5. \A s \in Schedulers :
        Known(s)' => /\ Known(s) /\ reg'[s].age <= reg[s].age + 1
                     /\ reg[s].age \in Nat /\ reg'[s].age \in Nat
  <2> SUFFICES ASSUME NEW s \in Schedulers, Known(s)'
               PROVE  /\ Known(s) /\ reg'[s].age <= reg[s].age + 1
                      /\ reg[s].age \in Nat /\ reg'[s].age \in Nat
    OBVIOUS
  <2>1. Known(s)
    BY <1>2 DEF Known
  <2>2. reg[s] \in [age : 0..MaxAge, inflight : 0..Capacity]
    BY <1>1, <2>1 DEF HeartbeatTypeOK, Known
  <2>3. reg'[s].age = Later(reg[s].age)
    BY <1>2, <2>1, <2>2
  <2> QED BY <2>1, <2>2, <2>3, LaterAge, Durations
<1>6. reg' \in [Schedulers -> [age : 0..MaxAge, inflight : 0..Capacity] \cup {Absent}]
  <2> SUFFICES ASSUME NEW s \in Schedulers, Known(s)
               PROVE  [reg[s] EXCEPT !.age = Later(reg[s].age)]
                        \in [age : 0..MaxAge, inflight : 0..Capacity]
    BY <1>2
  <2>1. reg[s] \in [age : 0..MaxAge, inflight : 0..Capacity]
    BY <1>1 DEF HeartbeatTypeOK, Known
  <2>2. Later(reg[s].age) \in 0..MaxAge
    BY <2>1, LaterAge
  <2> QED BY <2>1, <2>2
<1>7. elapsed' \in 0..perCallTimeout
  BY <1>2, <1>4, Durations
<1>8. CASE running /\ loop = "wait"
  <2>1. /\ timer' = IF timer = 1 THEN Interval ELSE timer - 1
        /\ tick' = (timer = 1) /\ tick = FALSE
    BY <1>1, <1>3, <1>8 DEF Pass, HeartbeatTypeOK
  <2>2. timer' \in 1..Interval /\ tick' \in BOOLEAN
    BY <1>4, <2>1, Durations
  <2>3. HeartbeatTypeOK'
    BY <1>1, <1>2, <1>6, <1>7, <2>2 DEF HeartbeatTypeOK
  <2>4. Paced'
    BY <1>1, <1>2, <1>8, <2>1, Zenon DEF Paced
  <2>5. AgeBounded'
    <3> SUFFICES ASSUME NEW s \in Schedulers, Known(s)', missed[s] < Enough
                 PROVE  reg'[s].age + timer' <= Span(missed[s]) + (IF tick' THEN Interval ELSE 0)
      BY <1>2, <1>8 DEF AgeBounded
    <3>1. reg[s].age + timer <= Span(missed[s]) + 0 /\ Span(missed[s]) \in Nat
      <4>1. tick = FALSE /\ loop # "register" /\ Known(s)
        BY <1>5, <1>8, <2>1
      <4>2. reg[s].age + timer <= Span(missed[s]) + 0
        BY <4>1, Zenon DEF HeartbeatInv, AgeBounded
      <4>3. missed[s] \in Nat
        BY <1>1 DEF HeartbeatTypeOK
      <4> QED BY <4>2, <4>3, SpanGrows
    <3>2. CASE timer = 1
      <4>1. timer' = Interval /\ tick' = TRUE
        BY <2>1, <3>2, Zenon
      <4> QED BY <1>4, <1>5, <3>1, <3>2, <4>1, Durations
    <3>3. CASE timer # 1
      <4>1. timer' = timer - 1 /\ tick' = FALSE
        BY <2>1, <3>3, Zenon
      <4> QED BY <1>4, <1>5, <3>1, <4>1, Durations
    <3> QED BY <3>2, <3>3
  <2> QED BY <2>3, <2>4, <2>5 DEF HeartbeatInv
<1>9. CASE loop = "beat"
  <2>1. timer = Interval - elapsed /\ open # {} /\ elapsed < perCallTimeout /\ running
    BY <1>1, <1>2, <1>3, <1>9 DEF Paced
  <2>2. timer # 1 /\ elapsed' = elapsed + 1
    BY <1>2, <1>4, <2>1, Durations
  <2>3. timer' = timer - 1 /\ tick' = FALSE
    BY <1>1, <1>3, <1>9, <2>1, <2>2 DEF Pass, HeartbeatTypeOK
  <2>4. timer' \in 1..Interval /\ timer' = Interval - elapsed'
    BY <1>4, <2>1, <2>2, <2>3, Durations
  <2>5. HeartbeatTypeOK'
    BY <1>1, <1>2, <1>6, <1>7, <2>3, <2>4, Zenon DEF HeartbeatTypeOK
  <2>6. Paced'
    BY <1>1, <1>2, <1>9, <2>1, <2>3, <2>4 DEF Paced
  <2>7. AgeBounded'
    <3> SUFFICES ASSUME NEW s \in Schedulers, Known(s)', missed[s] < Enough
                 PROVE  reg'[s].age + timer' <= Span(missed[s]) + (IF tick' THEN Interval ELSE 0)
      BY <1>2, <1>9 DEF AgeBounded
    <3>1. reg[s].age + timer <= Span(missed[s]) + 0 /\ Span(missed[s]) \in Nat
      <4>1. tick = FALSE /\ loop # "register" /\ Known(s)
        BY <1>1, <1>3, <1>5, <1>9 DEF HeartbeatTypeOK
      <4>2. reg[s].age + timer <= Span(missed[s]) + 0
        BY <4>1, Zenon DEF HeartbeatInv, AgeBounded
      <4>3. missed[s] \in Nat
        BY <1>1 DEF HeartbeatTypeOK
      <4> QED BY <4>2, <4>3, SpanGrows
    <3> QED BY <1>4, <1>5, <2>3, <3>1
  <2> QED BY <2>5, <2>6, <2>7 DEF HeartbeatInv
<1>10. CASE loop = "register" \/ ~running
  <2>1. UNCHANGED <<timer, tick>>
    BY <1>10 DEF Pass
  <2>2. HeartbeatTypeOK'
    BY <1>1, <1>2, <1>6, <1>7, <2>1 DEF HeartbeatTypeOK
  <2>3. Paced'
    BY <1>1, <1>2, <1>10, <2>1 DEF Paced
  <2>4. AgeBounded'
    <3> SUFFICES ASSUME NEW s \in Schedulers, Known(s)', missed[s] < Enough
                 PROVE  loop = "register" /\ missed[s] = 1 /\ reg'[s].age <= elapsed'
      BY <1>2 DEF AgeBounded
    <3>1. loop = "register"
      BY <1>1, <1>10 DEF Paced, Enough
    <3>2. missed[s] = 1 /\ reg[s].age <= elapsed
      BY <1>5, <3>1 DEF HeartbeatInv, AgeBounded
    <3>3. elapsed' = elapsed + 1
      BY <1>2, <1>3, <3>1
    <3>4. reg'[s].age <= reg[s].age + 1 /\ reg[s].age \in Nat /\ reg'[s].age \in Nat
      BY <1>5, Zenon
    <3> QED BY <1>4, <3>1, <3>2, <3>3, <3>4
  <2> QED BY <2>2, <2>3, <2>4 DEF HeartbeatInv
<1> QED BY <1>1, <1>8, <1>9, <1>10 DEF HeartbeatTypeOK

LEMMA HeartbeatInductive == HeartbeatSpec => []HeartbeatInv
<1>1. HeartbeatInit => HeartbeatInv
  BY InitHeartbeatInv
<1>2. HeartbeatInv /\ [HeartbeatNext]_heartbeatVars => HeartbeatInv'
  <2> SUFFICES ASSUME HeartbeatInv, [HeartbeatNext]_heartbeatVars PROVE HeartbeatInv'
    OBVIOUS
  <2>1. CASE WorkerStep
    BY <2>1, ProcessKeeps, BeatKeeps, CallEndsKeeps, FanOutEndsKeeps DEF WorkerStep
  <2>2. ASSUME NEW s \in Schedulers, SchedulerStep(s) PROVE HeartbeatInv'
    BY <2>2, ReportKeeps, CallEndsKeeps, SweepKeeps DEF SchedulerStep
  <2>3. CASE UNCHANGED heartbeatVars
    BY <2>3, OutsideTheLoop
    DEF HeartbeatInv, HeartbeatTypeOK, Known, heartbeatVars, workerVars, schedulerVars
  <2> QED BY <2>1, <2>2, <2>3, PassKeeps, CallEndsKeeps DEF HeartbeatNext
<1> QED BY <1>1, <1>2, PTL DEF HeartbeatSpec

\* The values the heartbeat loop and the registry leave behind; in particular no
\* fan-out outlasts perCallTimeout.
THEOREM HeartbeatTypeCorrect == HeartbeatSpec => []HeartbeatTypeOK
<1>1. HeartbeatInv => HeartbeatTypeOK
  BY DEF HeartbeatInv
<1> QED BY <1>1, HeartbeatInductive, PTL

\* heartbeat.go: with any interval, and any timeout of a call that is shorter, no
\* tick finds the loop busy, so that none is dropped.
THEOREM NoTickMissed == HeartbeatSpec => []BeatsKeepPace
<1>1. HeartbeatInv => BeatsKeepPace
  BY DEF HeartbeatInv, HeartbeatTypeOK, Paced, BeatsKeepPace
<1> QED BY <1>1, HeartbeatInductive, PTL

\* cmd/scheduler: the TTLs tolerate one missed beat and three, for any number of
\* schedulers and any durations of at least two and four intervals, whatever the
\* timing of the calls.
THEOREM MissesTolerated == HeartbeatSpec => []TTLsCountBeats
<1>1. HeartbeatInv => TTLsCountBeats
  <2> SUFFICES ASSUME HeartbeatInv, NEW s \in Schedulers, Known(s)
               PROVE  /\ reg[s].age > staleTTL => missed[s] >= 2
                      /\ reg[s].age > deadTTL => missed[s] >= 4
    BY DEF TTLsCountBeats
  <2>1. /\ reg[s].age \in Nat /\ missed[s] \in 0..4 /\ timer \in Nat /\ timer >= 1
        /\ elapsed \in Nat /\ elapsed <= perCallTimeout /\ (tick => timer = Interval)
    BY Durations DEF HeartbeatInv, HeartbeatTypeOK, Paced, Known, Enough
  <2>2. CASE missed[s] = 4
    BY <2>2
  <2>3. CASE missed[s] # 4
    <3>1. missed[s] < Enough /\ missed[s] \in 0..3
      BY <2>1, <2>3 DEF Enough
    <3>2. Span(missed[s]) \in Nat /\ Span(missed[s]) >= Interval /\ Span(missed[s]) <= deadTTL
      BY <3>1, SpanGrows
    <3>3. reg[s].age <= Span(missed[s])
      <4>1. CASE loop = "register"
        <5>1. reg[s].age <= elapsed
          BY <3>1, <4>1 DEF HeartbeatInv, AgeBounded
        <5> QED BY <2>1, <3>2, <5>1, Durations
      <4>2. CASE loop # "register"
        <5>1. reg[s].age + timer <= Span(missed[s]) + (IF tick THEN Interval ELSE 0)
          BY <3>1, <4>2 DEF HeartbeatInv, AgeBounded
        <5>2. CASE tick
          BY <2>1, <3>2, <5>1, <5>2, Durations
        <5>3. CASE ~tick
          BY <2>1, <3>2, <5>1, <5>3, Durations
        <5> QED BY <5>2, <5>3
      <4> QED BY <4>1, <4>2
    <3>4. missed[s] \in {0, 1} => Span(missed[s]) <= staleTTL
      BY SpanGrows
    <3> QED BY <2>1, <3>1, <3>2, <3>3, <3>4, Durations
  <2> QED BY <2>2, <2>3
<1> QED BY <1>1, HeartbeatInductive, PTL
=============================================================================
