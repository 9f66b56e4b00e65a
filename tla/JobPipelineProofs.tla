------------------------- MODULE JobPipelineProofs --------------------------
(***************************************************************************)
(* Theorems about JobPipeline, for any number of jobs, workers, schedulers *)
(* and slots, any budgets, and any number of faults of every kind.         *)
(***************************************************************************)
EXTENDS JobPipelineInvariant

(* The two actions at which a relay learns something. *)

\* A drain claims pending commands with the verdict their rows justify now.
LEMMA DrainPreserves ==
  ASSUME IInv, NEW s \in Schedulers, Drain(s)
  PROVE  IInv'
<1>1. TypeOK /\ StoreTypeOK /\ UNCHANGED <<jobs, outbox, leader, cands, late, workerVars, reaperVars, faults>>
  BY StoreTypes DEF IInv, TypeInv, Drain
<1> DEFINE C == {[row |-> r, verdict |-> Verdict(r)] : r \in ClaimOutbox(DrainBatch)}
<1>2. batch' = [batch EXCEPT ![s] = C] /\ relay' = [relay EXCEPT ![s] = "handle"]
  BY DEF Drain
<1>3. \A e \in C : \E r \in Rows : e.row = r /\ e.verdict = Verdict(r) /\ e \in Claim
  <2>1. ClaimOutbox(DrainBatch) \subseteq Rows /\ Rows \subseteq Nat
    BY <1>1, RowsAreIndexes DEF ClaimOutbox, PendingRows
  <2>2. \A r \in Rows : Verdict(r) \in {"reconcile", "abandon", "dispatch"}
    BY DEF Verdict
  <2> SUFFICES ASSUME NEW e \in C
               PROVE  \E r \in Rows : e.row = r /\ e.verdict = Verdict(r) /\ e \in Claim
    OBVIOUS
  <2>3. PICK r \in ClaimOutbox(DrainBatch) : e = [row |-> r, verdict |-> Verdict(r)]
    OBVIOUS
  <2>4. r \in Rows /\ r \in Nat /\ Verdict(r) \in {"reconcile", "abandon", "dispatch"}
    BY <2>1, <2>2, Zenon
  <2> QED BY <2>3, <2>4 DEF Claim
<1> HIDE DEF C
<1>4. \A e \in C : /\ e \in Claim /\ e.row \in Rows
                   /\ e.verdict = "reconcile" => MovedPast(e.row)
                   /\ e.verdict = "abandon" => BudgetSpent(e.row)
  BY <1>3 DEF Verdict, MovedPast, BudgetSpent
<1>5. TypeOK'
  BY <1>1, <1>2, <1>4 DEF TypeOK, RelayStates, workerVars, reaperVars
<1>6. Rows' = Rows /\ \A r \in Rows : MovedPast(r)' = MovedPast(r) /\ BudgetSpent(r)' = BudgetSpent(r)
  BY <1>1 DEF Rows, MovedPast, BudgetSpent
<1>7. HasCommand' /\ ClosedMovedPast' /\ FailedMeansSpent'
  BY <1>1, JustifiedLawful, LawfulKeepsCommands DEF IInv, Justified, Statement
<1>8. CallingHasCands'
  BY <1>1, <1>2 DEF TypeOK, IInv, TypeInv, CallingHasCands
<1>9. ClaimsExist' /\ ClaimsSound'
  <2> SUFFICES ASSUME NEW t \in Schedulers, NEW e \in batch'[t]
               PROVE  /\ e.row \in Rows
                      /\ e.verdict = "reconcile" => MovedPast(e.row)
                      /\ e.verdict = "abandon" => BudgetSpent(e.row)
    BY <1>6 DEF ClaimsExist, ClaimsSound
  <2>1. CASE t = s
    BY <2>1, <1>1, <1>2, <1>4 DEF TypeOK
  <2>2. CASE t # s
    BY <2>2, <1>1, <1>2 DEF TypeOK, IInv, TypeInv, ClaimsExist, ClaimsSound
  <2> QED BY <2>1, <2>2
<1>10. AckSound'
  <2> SUFFICES ASSUME NEW t \in Schedulers, relay'[t] = "acked",
                      NEW e \in batch'[t], IsCurrent(t, e)'
               PROVE  MovedPast(e.row)'
    BY DEF AckSound
  <2>1. t # s /\ relay[t] = "acked" /\ batch'[t] = batch[t]
    BY <1>1, <1>2 DEF TypeOK
  <2>2. IsCurrent(t, e) /\ e.row \in Rows
    BY <2>1 DEF IsCurrent, IInv, TypeInv, ClaimsExist
  <2> QED BY <2>1, <2>2, <1>6 DEF IInv, AckSound
<1> QED BY <1>5, <1>7, <1>8, <1>9, <1>10 DEF IInv, TypeInv

\* The worker has just moved the job of the current command out of "pending".
LEMMA CallAckedPreserves ==
  ASSUME IInv, Lawful, NEW s \in Schedulers, NEW e \in batch[s], CallAcked(s, e)
  PROVE  IInv'
<1> DEFINE w == Head(cands[s])
           j == outbox[e.row].job
<1>1. TypeInv /\ TypeOK /\ StoreTypeOK /\ w \in Workers /\ j \in Jobs /\ e.row \in Rows
  BY StoreTypes, HeadOfCands, CurrentRow DEF IInv, TypeInv, CallAcked
<1>2. /\ Accept(w, j) /\ relay' = [relay EXCEPT ![s] = "acked"] /\ relay[s] = "calling"
      /\ UNCHANGED <<leader, batch, cands, late, up, reaperVars>> /\ IsCurrent(s, e)
  BY SMTT(20) DEF CallAcked
<1>3. MarkScheduled(j, w)
  BY <1>2, Zenon DEF Accept
<1>4. jobs'[j].status = "scheduled" /\ outbox' = outbox
  BY <1>1, <1>3, MarkScheduledPlaces
<1>5. MovedPast(e.row)'
  BY <1>4 DEF MovedPast
<1> HIDE DEF w, j
<1>6. slot' \in [Workers -> [Slots -> Task \cup {Free}]] /\ faults' \in 0..MaxFaults
  BY <1>1, <1>2, SlotTypes, AcceptFaults
<1>7. relay' \in [Schedulers -> RelayStates]
  BY <1>1, <1>2 DEF TypeOK, RelayStates
<1>8. TypeOK'
  BY <1>1, <1>2, <1>6, <1>7, LawfulTypesHold DEF TypeOK, LawfulTypes, reaperVars
<1>9. CallingHasCands'
  BY <1>1, <1>2 DEF TypeInv, TypeOK, CallingHasCands
<1>10. HasCommand' /\ ClosedMovedPast' /\ FailedMeansSpent'
  BY <1>1, LawfulKeepsCommands DEF IInv
<1>11. \A r \in Rows : /\ r \in Rows'
                       /\ MovedPast(r) => MovedPast(r)'
                       /\ BudgetSpent(r) => BudgetSpent(r)'
  BY <1>1, Stable DEF Lawful, Evolves
<1>12. ClaimsExist' /\ ClaimsSound'
  BY <1>2, <1>11 DEF IInv, TypeInv, ClaimsExist, ClaimsSound
<1>13. AckSound'
  <2> SUFFICES ASSUME NEW t \in Schedulers, relay'[t] = "acked",
                      NEW f \in batch'[t], IsCurrent(t, f)'
               PROVE  MovedPast(f.row)'
    BY DEF AckSound
  <2>1. f \in batch[t] /\ IsCurrent(t, f) /\ f.row \in Rows /\ f.row \in Nat
    <3>1. batch' = batch /\ batch[t] \subseteq Claim
      BY <1>1, <1>2 DEF TypeOK
    <3>2. f \in batch[t] /\ f \in Claim
      BY <3>1
    <3>3. IsCurrent(t, f)
      BY <3>1 DEF IsCurrent
    <3> QED BY <1>1, <3>2, <3>3 DEF TypeInv, ClaimsExist, Claim
  <2>2. CASE t = s
    <3> DEFINE x == e.row
               y == f.row
    <3>1. x \in Nat
      <4>1. batch[s] \subseteq Claim
        BY <1>1 DEF TypeOK
      <4> QED BY <4>1 DEF Claim
    <3>2. x <= y /\ y <= x /\ y \in Nat
      BY <1>2, <2>1, <2>2 DEF IsCurrent
    <3> HIDE DEF x, y
    <3>3. x = y
      BY <3>1, <3>2
    <3> USE DEF x, y
    <3> QED BY <3>3, <1>5
  <2>3. CASE t # s
    BY <2>1, <2>3, <1>1, <1>2, <1>11 DEF TypeOK, IInv, AckSound
  <2> QED BY <2>2, <2>3
<1> QED BY <1>8, <1>9, <1>10, <1>12, <1>13 DEF IInv, TypeInv

-----------------------------------------------------------------------------
\* The cluster starts in the invariant ...
LEMMA InitIInv == Init => IInv
<1> SUFFICES ASSUME Init PROVE IInv
  OBVIOUS
<1>1. TypeOK
  <2>1. jobs \in [Jobs -> JobRow] /\ outbox \in Seq(CommandRow)
    BY DEF Init, StoreInit, JobRow, JobStatus
  <2>2. /\ leader \in Schedulers \cup {None} /\ relay \in [Schedulers -> RelayStates]
        /\ batch \in [Schedulers -> SUBSET Claim]
    BY DEF Init, RelayStates
  <2>3. cands \in [Schedulers -> Seq(Workers)] /\ late \subseteq Workers \X Jobs
    BY DEF Init
  <2>4. up \in [Workers -> BOOLEAN] /\ slot \in [Workers -> [Slots -> Task \cup {Free}]]
    BY DEF Init
  <2>5. /\ known \in [Schedulers -> SUBSET Workers] /\ sweep \in [Schedulers -> SUBSET Workers]
        /\ forget \in [Schedulers -> Workers \cup {None}]
    BY DEF Init
  <2>6. faults \in 0..MaxFaults
    BY PipelineAssumption DEF Init
  <2> QED BY <2>1, <2>2, <2>3, <2>4, <2>5, <2>6 DEF TypeOK
<1>2. Rows = {}
  BY DEF Init, StoreInit, Rows
<1>3. HasCommand /\ ClosedMovedPast /\ FailedMeansSpent
  BY <1>2 DEF Init, StoreInit, HasCommand, ClosedMovedPast, FailedMeansSpent
<1>4. CallingHasCands /\ ClaimsExist /\ ClaimsSound /\ AckSound
  BY DEF Init, CallingHasCands, ClaimsExist, ClaimsSound, AckSound
<1> QED BY <1>1, <1>3, <1>4 DEF IInv, TypeInv

\* ... and no step leaves it.
LEMMA NextIInv ==
  ASSUME IInv, Lawful, [Next]_vars
  PROVE  IInv'
<1>1. TypeInv
  BY DEF IInv
<1>2. ASSUME NEW s \in Schedulers, Drain(s) PROVE IInv'
  BY <1>2, DrainPreserves
<1>3. ASSUME NEW s \in Schedulers, NEW e \in batch[s], CallAcked(s, e) PROVE IInv'
  BY <1>3, CallAckedPreserves
<1>4. ASSUME NEW s \in Schedulers,
             \/ StepDown \/ Elect(s) \/ CrashScheduler(s)
             \/ \E j \in Jobs : SubmitJob(s, j)
             \/ RelayStep(s) /\ ~Drain(s)
             \/ \E e \in batch[s] : CallRefused(s, e) \/ CallTimesOut(s, e) \/ AckLost(s, e)
             \/ \E dead \in SUBSET Workers : StartSweep(s, dead)
             \/ ReaperStep(s)
             \/ \E w \in Workers : Heartbeat(w, s)
      PROVE  IInv'
  <2>1. Routine
    BY <1>1, <1>4, LeaderRoutine, CrashRoutine, RelayRoutine, RegistryRoutine, FailedCallRoutine
    DEF RelayStep
  <2> QED BY <2>1, RoutinePreserves
<1>5. ASSUME NEW w \in Workers,
             \/ RunStep(w) \/ CrashWorker(w) \/ RestartWorker(w)
             \/ \E j \in Jobs : LateCall(w, j)
      PROVE  IInv'
  BY <1>1, <1>5, WorkerRoutine, RoutinePreserves
<1>6. CASE StepDown
  BY <1>1, <1>4, <1>6 DEF StepDown, TypeInv, TypeOK
<1>7. CASE UNCHANGED vars
  <2>1. Routine
    BY <1>1, <1>7 DEF vars, schedVars, workerVars, reaperVars, TypeInv, TypeOK, CallingHasCands,
                      Routine, NothingNew
  <2> QED BY <2>1, RoutinePreserves
<1> QED BY <1>2, <1>3, <1>4, <1>5, <1>6, <1>7 DEF Next, CallAnswered

\* A job named in a call or held by a worker came out of the outbox.
Fetched(j) == \E s \in Schedulers : \E e \in batch[s] : outbox[e.row].job = j

NewHolders ==
  /\ \A c \in late' : c \in late \/ Fetched(c[2])
  /\ \A w \in Workers : \A k \in Slots :
       \/ slot'[w][k] = Free
       \/ slot[w][k] # Free /\ slot'[w][k].job = slot[w][k].job
       \/ Fetched(slot'[w][k].job)
       \/ \E c \in late : slot'[w][k].job = c[2]

LEMMA AcceptSlots ==
  ASSUME TypeOK, NEW w \in Workers, NEW j \in Jobs, Accept(w, j) \/ Reject(w, j)
  PROVE  \A v \in Workers : \A k \in Slots : slot'[v][k] = slot[v][k] \/ slot'[v][k].job = j
<1>1. CASE slot' = slot
  BY <1>1
<1>2. ASSUME NEW k \in Slots, slot' = [slot EXCEPT ![w][k] = [job |-> j, stage |-> "accepted"]]
      PROVE  \A v \in Workers : \A i \in Slots : slot'[v][i] = slot[v][i] \/ slot'[v][i].job = j
  BY <1>2 DEF TypeOK
<1> QED BY <1>1, <1>2 DEF Accept, Reject, FreeSlots

LEMMA NextHolders ==
  ASSUME TypeInv, [Next]_vars
  PROVE  NewHolders
<1>1. TypeOK
  BY DEF TypeInv
<1>2. CASE UNCHANGED <<late, slot>>
  BY <1>2 DEF NewHolders
<1>3. ASSUME NEW s \in Schedulers, RelayStep(s) PROVE UNCHANGED <<late, slot>>
  BY <1>3, Zenon DEF RelayStep, Drain, Reconcile, AbandonCommand, AbandonJob, Dispatch, MarkDispatched,
              Defer, workerVars
<1>4. ASSUME NEW s \in Schedulers, NEW e \in batch[s], CallAcked(s, e) \/ CallRefused(s, e)
      PROVE  NewHolders
  <2>1. Head(cands[s]) \in Workers /\ outbox[e.row].job \in Jobs
    BY <1>4, HeadOfCands, CurrentRow DEF CallAcked, CallRefused
  <2>2. late' = late /\ Fetched(outbox[e.row].job)
    BY <1>4 DEF CallAcked, CallRefused, Fetched
  <2>3. \A v \in Workers : \A k \in Slots :
          slot'[v][k] = slot[v][k] \/ slot'[v][k].job = outbox[e.row].job
    BY <1>1, <1>4, <2>1, AcceptSlots DEF CallAcked, CallRefused
  <2> QED BY <2>2, <2>3 DEF NewHolders
<1>5. ASSUME NEW s \in Schedulers, NEW e \in batch[s], CallTimesOut(s, e) \/ AckLost(s, e)
      PROVE  NewHolders
  BY <1>5 DEF CallTimesOut, AckLost, workerVars, NewHolders, Fetched
<1>6. ASSUME NEW s \in Schedulers, CrashScheduler(s) PROVE NewHolders
  <2>1. slot' = slot
    BY <1>6 DEF CrashScheduler, workerVars
  <2>2. \A c \in late' : c \in late \/ Fetched(c[2])
    BY <1>6 DEF CrashScheduler, Fetched
  <2> QED BY <2>1, <2>2 DEF NewHolders
<1>7. ASSUME NEW s \in Schedulers,
             \/ StepDown \/ Elect(s) \/ ReaperStep(s)
             \/ \E j \in Jobs : SubmitJob(s, j)
             \/ \E dead \in SUBSET Workers : StartSweep(s, dead)
             \/ \E w \in Workers : Heartbeat(w, s)
      PROVE  UNCHANGED <<late, slot>>
  BY <1>7 DEF StepDown, Elect, ReaperStep, Reclaim, Forget, SubmitJob, StartSweep, Heartbeat, workerVars
<1>8. ASSUME NEW w \in Workers, RunStep(w) \/ CrashWorker(w) \/ RestartWorker(w) PROVE NewHolders
  <2>1. late' \subseteq late
    BY <1>8 DEF RunStep, StartRun, FinishRun, CrashWorker, RestartWorker
  <2>2. \A v \in Workers : \A k \in Slots :
          \/ slot'[v][k] = Free
          \/ slot[v][k] # Free /\ slot'[v][k].job = slot[v][k].job
    <3> DEFINE Held(v, i) == \/ slot'[v][i] = Free
                             \/ slot'[v][i] = slot[v][i]
                             \/ slot[v][i] # Free /\ slot'[v][i].job = slot[v][i].job
    <3>1. ASSUME NEW k \in Slots, StartRun(w, k) PROVE \A v \in Workers : \A i \in Slots : Held(v, i)
      <4>1. \/ slot' = [slot EXCEPT ![w][k] = Free]
            \/ slot[w][k] # Free /\ slot' = [slot EXCEPT ![w][k].stage = "running"]
        BY <3>1, Zenon DEF StartRun
      <4>2. CASE slot' = [slot EXCEPT ![w][k] = Free]
        BY <1>1, <4>2 DEF TypeOK
      <4>3. CASE slot[w][k] # Free /\ slot' = [slot EXCEPT ![w][k].stage = "running"]
        BY <1>1, <4>3 DEF TypeOK, Task
      <4> QED BY <4>1, <4>2, <4>3
    <3>2. ASSUME NEW k \in Slots, FinishRun(w, k) PROVE \A v \in Workers : \A i \in Slots : Held(v, i)
      BY <1>1, <3>2 DEF FinishRun, TypeOK
    <3>3. CASE CrashWorker(w)
      <4>1. \A v \in Workers : slot'[v] = IF v = w THEN [k \in Slots |-> Free] ELSE slot[v]
        BY <1>1, <3>3 DEF CrashWorker, TypeOK
      <4> QED BY <4>1
    <3>4. CASE RestartWorker(w)
      BY <3>4 DEF RestartWorker
    <3>5. \A v \in Workers : \A i \in Slots : Held(v, i)
      BY <1>8, <3>1, <3>2, <3>3, <3>4, Zenon DEF RunStep
    <3> QED BY <3>5, Zenon
  <2> QED BY <2>1, <2>2 DEF NewHolders
<1>9. ASSUME NEW w \in Workers, NEW j \in Jobs, LateCall(w, j) PROVE NewHolders
  <2>1. late' \subseteq late /\ <<w, j>> \in late
    BY <1>9 DEF LateCall
  <2>2. \A v \in Workers : \A k \in Slots : slot'[v][k] = slot[v][k] \/ slot'[v][k].job = j
    BY <1>1, <1>9, AcceptSlots DEF LateCall
  <2>3. <<w, j>>[2] = j
    OBVIOUS
  <2> QED BY <2>1, <2>2, <2>3 DEF NewHolders
<1>10. CASE StepDown \/ UNCHANGED vars
  BY <1>2, <1>10 DEF StepDown, vars, workerVars
<1> QED BY <1>2, <1>3, <1>4, <1>5, <1>6, <1>7, <1>8, <1>9, <1>10 DEF Next, CallAnswered

\* So every job that a process may still write to stays submitted.
LEMMA NextSubmitted ==
  ASSUME IInv, Lawful, Submitted, [Next]_vars, IInv'
  PROVE  Submitted'
<1>1. TypeInv /\ TypeOK /\ StoreTypeOK /\ NewHolders
  BY StoreTypes, NextHolders DEF IInv, TypeInv
<1>2. \A j \in Jobs : jobs[j].status # "absent" => jobs'[j].status # "absent"
  BY DEF Lawful, Evolves
<1>3. \A j \in Jobs : Fetched(j) => jobs[j].status # "absent"
  BY <1>1, CurrentRow DEF Submitted, Fetched
<1>4. \A r \in Rows' : jobs'[outbox'[r].job].status # "absent"
  <2> SUFFICES ASSUME NEW r \in Rows' PROVE jobs'[outbox'[r].job].status # "absent"
    OBVIOUS
  <2>1. CASE r \in Rows
    <3>1. outbox'[r].job = outbox[r].job /\ outbox[r].job \in Jobs
      BY <1>1, <2>1, RowsAreIndexes DEF Lawful, Evolves, CommandRow
    <3> QED BY <1>2, <2>1, <3>1 DEF Submitted
  <2>2. CASE r \notin Rows
    BY <2>2 DEF Lawful, Evolves
  <2> QED BY <2>1, <2>2
<1>5. \A c \in late' : jobs'[c[2]].status # "absent"
  <2>1. late' \subseteq Workers \X Jobs
    BY DEF IInv, TypeInv, TypeOK
  <2> QED BY <1>1, <1>2, <1>3, <2>1 DEF Submitted, NewHolders
<1>6. ASSUME NEW w \in Workers, NEW k \in Slots, slot'[w][k] # Free
      PROVE  jobs'[slot'[w][k].job].status # "absent"
  <2>1. slot'[w][k].job \in Jobs
    BY <1>6 DEF IInv, TypeInv, TypeOK, Task
  <2>2. jobs[slot'[w][k].job].status # "absent"
    BY <1>1, <1>3, <1>6, <2>1 DEF Submitted, NewHolders
  <2> QED BY <1>2, <2>1, <2>2
<1> QED BY <1>4, <1>5, <1>6 DEF Submitted

\* The inductive invariant holds in every behaviour of the pipeline.
THEOREM Inductive == Spec => [](IInv /\ Submitted)
<1>1. Init => Submitted
  BY DEF Init, StoreInit, Rows, Submitted
<1>2. IInv /\ Submitted /\ [Next]_vars => IInv' /\ Submitted'
  <2> SUFFICES ASSUME IInv, Submitted, [Next]_vars PROVE IInv' /\ Submitted'
    OBVIOUS
  <2>1. Lawful
    BY NextJustified, JustifiedLawful DEF IInv
  <2>2. IInv'
    BY <2>1, NextIInv
  <2> QED BY <2>1, <2>2, NextSubmitted
<1> QED BY <1>1, <1>2, InitIInv, PTL DEF Spec

\* The values the handlers of scheduler, relay, worker and reaper leave behind
\* are the ones their types allow.
THEOREM TypeCorrect == Spec => []TypeOK
<1>1. IInv => TypeOK
  BY DEF IInv, TypeInv
<1> QED BY <1>1, Inductive, PTL

\* README "no window where a job is committed but its dispatch was lost": no
\* interleaving of relays, reapers, workers and crashes closes the newest
\* dispatch command of a pending job as dispatched.
THEOREM DispatchNeverLost == Spec => []NoLostDispatch
<1>1. IInv => NoLostDispatch
  <2> SUFFICES ASSUME IInv, NEW j \in Jobs, jobs[j].status = "pending"
               PROVE  \E r \in Rows : IsNewest(r, j) /\ outbox[r].status # "dispatched"
    BY DEF NoLostDispatch
  <2>1. PICK r \in Rows : IsNewest(r, j)
    BY DEF IInv, HasCommand
  <2>2. ~MovedPast(r)
    <3>1. Rows \subseteq Nat
      BY StoreTypes, RowsAreIndexes DEF IInv, TypeInv
    <3> QED BY <2>1, <3>1 DEF MovedPast, IsNewest
  <2>3. outbox[r].status # "dispatched"
    BY <2>2 DEF IInv, ClosedMovedPast
  <2> QED BY <2>1, <2>3
<1> QED BY <1>1, Inductive, PTL

\* relay.go handle(): a command is given up on only when one of its budgets is
\* spent, whatever happened between the claim and abandon().
THEOREM BudgetsRespected == Spec => []FailedMeansSpent
<1>1. IInv => FailedMeansSpent
  BY DEF IInv
<1> QED BY <1>1, Inductive, PTL

\* relay.go "at-least-once delivery that survives scheduler crashes and leader
\* failover": the pipeline, its faults included, implements the durable intent.
THEOREM IntentRefined == Spec => RefinesIntent
<1>1. Init => Intent!Init
  BY DEF Init, StoreInit, Intent!Init, IntentOf
<1>2. IInv /\ Submitted /\ IInv' /\ [Next]_vars => [Intent!Next]_([j \in Jobs |-> IntentOf(j)])
  <2> SUFFICES ASSUME IInv, Submitted, IInv', [Next]_vars
               PROVE  [Intent!Next]_([j \in Jobs |-> IntentOf(j)])
    OBVIOUS
  <2>1. Justified
    BY NextJustified
  <2>2. Tables /\ Tables'
    BY DEF IInv, TypeInv, TypeOK, StoreTypeOK, Tables
  <2> QED BY <2>1, <2>2, IntentStep DEF Justified
<1> QED BY <1>1, <1>2, Inductive, PTL DEF Spec, RefinesIntent, Intent!Spec
=============================================================================
