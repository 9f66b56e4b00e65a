------------------------ MODULE JobPipelineInvariant ------------------------
(***************************************************************************)
(* The inductive invariant of the job pipeline, and what an action has to  *)
(* do to the tables (Lawful) and to the relays (Routine) to keep it.       *)
(*                                                                         *)
(* A relay acts on what it read when the drain began, and other relays,    *)
(* the reapers and the workers write in between.  What saves it is that    *)
(* the two facts it acts on are stable: MovedPast(r), the job of row r has *)
(* left "pending" or has a newer command, and BudgetSpent(r).              *)
(***************************************************************************)
EXTENDS JobPipeline, JobStoreProofs

\* A relay that is calling a worker, or was acked by one, knows which.
CallingHasCands ==
  \A s \in Schedulers : relay[s] \in {"calling", "acked"} => cands[s] # << >>

ClaimsExist == \A s \in Schedulers : \A e \in batch[s] : e.row \in Rows

\* A verdict of a claim is still justified when the relay gets to it.
ClaimsSound ==
  \A s \in Schedulers : \A e \in batch[s] :
    /\ e.verdict = "reconcile" => MovedPast(e.row)
    /\ e.verdict = "abandon" => BudgetSpent(e.row)

\* So is the acknowledgement of the command being handled.
AckSound ==
  \A s \in Schedulers : relay[s] = "acked" =>
    \A e \in batch[s] : IsCurrent(s, e) => MovedPast(e.row)

TypeInv == TypeOK /\ CallingHasCands /\ ClaimsExist

IInv ==
  /\ TypeInv
  /\ HasCommand
  /\ ClosedMovedPast
  /\ FailedMeansSpent
  /\ ClaimsSound
  /\ AckSound

\* What every step does to the tables ...
Lawful ==
  /\ Evolves
  /\ \A r \in Rows :
       \/ outbox'[r].status = outbox[r].status
       \/ outbox'[r].status = "dispatched" /\ MovedPast(r)
       \/ outbox'[r].status = "failed" /\ BudgetSpent(r)

\* ... and to the relays, when it neither claims nor gets an acknowledgement.
NothingNew ==
  \A s \in Schedulers :
    /\ batch'[s] \subseteq batch[s]
    /\ relay'[s] = "acked" => relay[s] = "acked" /\ batch'[s] = batch[s]

Routine == TypeOK' /\ CallingHasCands' /\ NothingNew

-----------------------------------------------------------------------------
\* The type invariant covers the two tables.
LEMMA StoreTypes == TypeOK => StoreTypeOK
BY DEF TypeOK, StoreTypeOK

\* No step undoes what a claim was decided on: a job past its command stays
\* past it, because becoming pending again inserts a newer command, and a spent
\* budget stays spent, because no statement lowers a counter.
LEMMA Stable ==
  ASSUME StoreTypeOK, Evolves, NEW r \in Rows
  PROVE  /\ MovedPast(r) => MovedPast(r)'
         /\ BudgetSpent(r) => BudgetSpent(r)'
<1> DEFINE j == outbox[r].job
<1>1. /\ r \in Rows' /\ j \in Jobs /\ outbox'[r].job = j
      /\ outbox[r].attempts \in Nat /\ jobs[j].attempts \in Nat
  BY RowsAreIndexes DEF Evolves, CommandRow, StoreTypeOK, JobRow
<1>2. outbox'[r].attempts \in Nat /\ jobs'[j].attempts \in Nat
  <2>1. outbox' \in Seq(CommandRow) /\ jobs' \in [Jobs -> JobRow]
    BY DEF Evolves, StoreTypeOK
  <2>2. r \in 1..Len(outbox')
    BY <1>1, <2>1 DEF Rows
  <2>3. outbox'[r] \in CommandRow
    BY <2>1, <2>2
  <2> QED BY <1>1, <2>1, <2>3 DEF CommandRow, JobRow
<1>3. outbox'[r].attempts >= outbox[r].attempts /\ jobs'[j].attempts >= jobs[j].attempts
  BY <1>1 DEF Evolves
<1>4. BudgetSpent(r) => BudgetSpent(r)'
  BY <1>1, <1>2, <1>3, PipelineAssumption DEF BudgetSpent
<1> QED BY <1>4, MovedPastStays

\* The invariant's facts about the tables survive every lawful step.
LEMMA LawfulKeepsCommands ==
  ASSUME StoreTypeOK, Lawful, HasCommand, ClosedMovedPast, FailedMeansSpent
  PROVE  HasCommand' /\ ClosedMovedPast' /\ FailedMeansSpent'
<1>1. HasCommand'
  BY DEF Lawful, Evolves
<1>2. ASSUME NEW r \in Rows'
      PROVE  /\ outbox'[r].status = "dispatched" => MovedPast(r)'
             /\ outbox'[r].status = "failed" => BudgetSpent(r)'
  <2>1. CASE r \notin Rows
    BY <2>1 DEF Lawful, Evolves
  <2>2. CASE r \in Rows
    <3>1. /\ MovedPast(r) => MovedPast(r)'
          /\ BudgetSpent(r) => BudgetSpent(r)'
      BY <2>2, Stable DEF Lawful
    <3> QED BY <3>1, <2>2 DEF Lawful, ClosedMovedPast, FailedMeansSpent
  <2> QED BY <2>1, <2>2
<1> QED BY <1>1, <1>2 DEF ClosedMovedPast, FailedMeansSpent

\* A lawful, routine step preserves the invariant.
LEMMA RoutinePreserves ==
  ASSUME IInv, Lawful, Routine
  PROVE  IInv'
<1>1. StoreTypeOK
  BY StoreTypes DEF IInv, TypeInv
<1>2. HasCommand' /\ ClosedMovedPast' /\ FailedMeansSpent'
  BY <1>1, LawfulKeepsCommands DEF IInv
<1>3. \A r \in Rows : /\ r \in Rows'
                      /\ MovedPast(r) => MovedPast(r)'
                      /\ BudgetSpent(r) => BudgetSpent(r)'
  BY <1>1, Stable DEF Lawful, Evolves
<1>4. ClaimsExist' /\ ClaimsSound'
  BY <1>3 DEF IInv, TypeInv, Routine, NothingNew, ClaimsExist, ClaimsSound
<1>5. AckSound'
  <2> SUFFICES ASSUME NEW s \in Schedulers, relay'[s] = "acked",
                      NEW e \in batch'[s], IsCurrent(s, e)'
               PROVE  MovedPast(e.row)'
    BY DEF AckSound
  <2>1. relay[s] = "acked" /\ batch'[s] = batch[s]
    BY DEF Routine, NothingNew
  <2>2. IsCurrent(s, e) /\ e.row \in Rows
    BY <2>1 DEF IsCurrent, IInv, TypeInv, ClaimsExist
  <2> QED BY <2>1, <2>2, <1>3 DEF IInv, AckSound
<1> QED BY <1>2, <1>4, <1>5 DEF IInv, TypeInv, Routine

-----------------------------------------------------------------------------
(* The tables: every step is at most one statement, and a lawful one. *)

\* The jobs that a process may still write to have been submitted.
Submitted ==
  /\ \A r \in Rows : jobs[outbox[r].job].status # "absent"
  /\ \A c \in late : jobs[c[2]].status # "absent"
  /\ \A w \in Workers : \A k \in Slots :
       slot[w][k] # Free => jobs[slot[w][k].job].status # "absent"

\* A step closes a command as failed only when a budget is spent.
Justified == Statement \/ \E r \in Rows : MarkOutboxFailed(r) /\ BudgetSpent(r)

LEMMA JustifiedLawful ==
  ASSUME TypeInv, Justified
  PROVE  Lawful
<1>1. StoreTypeOK
  BY StoreTypes DEF TypeInv
<1>2. CASE Statement
  BY <1>1, <1>2, StatementCloses DEF Lawful, Closes
<1>3. ASSUME NEW r \in Rows, MarkOutboxFailed(r), BudgetSpent(r) PROVE Lawful
  BY <1>1, <1>3, MarkOutboxFailedEvolves DEF Lawful
<1> QED BY <1>2, <1>3 DEF Justified

\* The command being handled is a row of the outbox.
LEMMA CurrentRow ==
  ASSUME TypeInv, NEW s \in Schedulers, NEW e \in batch[s]
  PROVE  e.row \in Rows /\ outbox[e.row].job \in Jobs
BY StoreTypes, RowsAreIndexes DEF TypeInv, ClaimsExist, CommandRow

\* ExecuteJob, whether it accepts or refuses.
LEMMA AcceptStatement ==
  ASSUME NEW w \in Workers, NEW j \in Jobs, jobs[j].status # "absent",
         Accept(w, j) \/ Reject(w, j)
  PROVE  Statement
BY DEF Accept, Reject, Statement, MarkJob

\* The relay's own steps write only what their claim justifies.
LEMMA RelayJustified ==
  ASSUME IInv, Submitted, NEW s \in Schedulers, RelayStep(s)
  PROVE  Justified
<1>1. CASE UNCHANGED <<jobs, outbox>>
  BY <1>1 DEF Justified, Statement
<1>2. ASSUME NEW e \in batch[s]
      PROVE  e.row \in Rows /\ outbox[e.row].job \in Jobs /\ jobs[outbox[e.row].job].status # "absent"
  BY CurrentRow DEF IInv, Submitted
<1>3. ASSUME NEW e \in batch[s], Reconcile(s, e) PROVE Justified
  BY <1>1, <1>2, <1>3 DEF IInv, Reconcile, LoggedWrite, ClaimsSound, Justified, Statement, MarkCommand
<1>4. ASSUME NEW e \in batch[s], AbandonCommand(s, e) PROVE Justified
  BY <1>1, <1>2, <1>4 DEF IInv, AbandonCommand, LoggedWrite, ClaimsSound, Justified
<1>5. ASSUME NEW e \in batch[s], AbandonJob(s, e) PROVE Justified
  BY <1>1, <1>2, <1>5, Zenon DEF AbandonJob, LoggedWrite, Justified, Statement, MarkJob
<1>6. ASSUME NEW e \in batch[s], MarkDispatched(s, e) PROVE Justified
  BY <1>1, <1>2, <1>6 DEF IInv, MarkDispatched, LoggedWrite, AckSound, Justified, Statement, MarkCommand
<1>7. ASSUME NEW e \in batch[s], Defer(s, e) PROVE Justified
  BY <1>1, <1>2, <1>7 DEF Defer, LoggedWrite, Justified, Statement, MarkCommand
<1> QED BY <1>1, <1>3, <1>4, <1>5, <1>6, <1>7 DEF RelayStep, Drain, Dispatch

\* The worker being called is one of the workers.
LEMMA HeadOfCands ==
  ASSUME TypeInv, NEW s \in Schedulers, relay[s] \in {"calling", "acked"}
  PROVE  /\ Head(cands[s]) \in Workers /\ Tail(cands[s]) \in Seq(Workers)
         /\ Len(cands[s]) # 1 => Tail(cands[s]) # << >>
<1>1. cands[s] \in Seq(Workers) /\ cands[s] # << >>
  BY DEF TypeInv, TypeOK, CallingHasCands
<1>2. Head(cands[s]) \in Workers /\ Tail(cands[s]) \in Seq(Workers)
  BY <1>1
<1>3. ASSUME Tail(cands[s]) = << >> PROVE Len(cands[s]) = 1
  <2>1. Len(Tail(cands[s])) = Len(cands[s]) - 1 /\ Len(cands[s]) \in Nat
    BY <1>1
  <2>2. Len(<< >>) = 0
    OBVIOUS
  <2>3. Len(Tail(cands[s])) = 0
    BY <1>3, <2>2, Zenon
  <2> QED BY <2>1, <2>3
<1> QED BY <1>2, <1>3

\* A call that is answered.
LEMMA CallStatement ==
  ASSUME TypeInv, Submitted, NEW s \in Schedulers, CallAnswered(s)
  PROVE  Statement
<1>1. PICK e \in batch[s] : CallAcked(s, e) \/ CallRefused(s, e)
  BY DEF CallAnswered
<1>2. outbox[e.row].job \in Jobs /\ jobs[outbox[e.row].job].status # "absent"
  BY CurrentRow DEF Submitted
<1>3. Head(cands[s]) \in Workers
  BY <1>1, HeadOfCands DEF CallAcked, CallRefused
<1> QED BY <1>1, <1>2, <1>3, AcceptStatement DEF CallAcked, CallRefused

\* The goroutines of a worker, and late calls.
LEMMA WorkerStatement ==
  ASSUME TypeInv, Submitted, NEW w \in Workers,
         RunStep(w) \/ \E j \in Jobs : LateCall(w, j)
  PROVE  Statement
<1>1. CASE UNCHANGED <<jobs, outbox>>
  BY <1>1 DEF Statement
<1>2. \A k \in Slots : slot[w][k] # Free =>
        slot[w][k].job \in Jobs /\ jobs[slot[w][k].job].status # "absent"
  BY DEF TypeInv, TypeOK, Task, Submitted
<1>3. ASSUME NEW k \in Slots, StartRun(w, k) PROVE Statement
  BY <1>1, <1>2, <1>3, Zenon DEF StartRun, Statement, MarkJob
<1>4. ASSUME NEW k \in Slots, FinishRun(w, k) PROVE Statement
  BY <1>1, <1>2, <1>4, Zenon DEF FinishRun, LoggedWrite, Statement, MarkJob
<1>5. ASSUME NEW j \in Jobs, LateCall(w, j) PROVE Statement
  <2>1. jobs[j].status # "absent"
    BY <1>5 DEF LateCall, Submitted
  <2> QED BY <1>5, <2>1, AcceptStatement DEF LateCall
<1> QED BY <1>3, <1>4, <1>5 DEF RunStep

\* Every step of the cluster.
LEMMA NextJustified ==
  ASSUME IInv, Submitted, [Next]_vars
  PROVE  Justified
<1>1. TypeInv
  BY DEF IInv
<1>2. CASE UNCHANGED <<jobs, outbox>>
  BY <1>2 DEF Justified, Statement
<1>3. ASSUME NEW s \in Schedulers, NEW j \in Jobs, SubmitJob(s, j) PROVE Statement
  BY <1>3 DEF SubmitJob, Statement
<1>4. ASSUME NEW s \in Schedulers, ReaperStep(s) PROVE Statement
  BY <1>4 DEF ReaperStep, Reclaim, Forget, Statement
<1>5. ASSUME NEW s \in Schedulers,
             \/ Elect(s) \/ CrashScheduler(s)
             \/ \E e \in batch[s] : CallTimesOut(s, e) \/ AckLost(s, e)
             \/ \E dead \in SUBSET Workers : StartSweep(s, dead)
             \/ \E w \in Workers : Heartbeat(w, s)
      PROVE  UNCHANGED <<jobs, outbox>>
  BY <1>5 DEF Elect, CrashScheduler, CallTimesOut, AckLost, StartSweep, Heartbeat
<1>6. ASSUME NEW w \in Workers, CrashWorker(w) \/ RestartWorker(w) PROVE UNCHANGED <<jobs, outbox>>
  BY <1>6 DEF CrashWorker, RestartWorker
<1>7. CASE StepDown \/ UNCHANGED vars
  BY <1>2, <1>7 DEF StepDown, vars
<1> QED BY <1>1, <1>2, <1>3, <1>4, <1>5, <1>6, <1>7, RelayJustified, CallStatement, WorkerStatement DEF Next, Justified

-----------------------------------------------------------------------------
(* The processes: every action but Drain and CallAcked is routine. *)

LawfulTypes == jobs' \in [Jobs -> JobRow] /\ outbox' \in Seq(CommandRow)

\* A step counts one fault or none, within their bound.
LEMMA FaultBounded ==
  ASSUME TypeOK, \/ NoFault
                 \/ \E kind \in FaultKinds : Fault(kind)
  PROVE  faults' \in 0..MaxFaults
<1>1. faults' = faults \/ (faults < MaxFaults /\ faults' = faults + 1)
  BY DEF NoFault, Fault
<1>2. faults \in 0..MaxFaults
  BY DEF TypeOK
<1> QED BY <1>1, <1>2, PipelineAssumption

\* handle() returns.
LEMMA HandledRoutine ==
  ASSUME TypeInv, LawfulTypes, NEW s \in Schedulers, NEW e \in batch[s], Handled(s, e),
         UNCHANGED <<leader, late, workerVars, reaperVars>>, faults' \in 0..MaxFaults,
         cands' = cands \/ cands' = [cands EXCEPT ![s] = << >>]
  PROVE  Routine
<1>1. relay' \in [Schedulers -> RelayStates] /\ batch' \in [Schedulers -> SUBSET Claim]
  BY DEF TypeInv, TypeOK, Handled, RelayStates
<1>2. cands' \in [Schedulers -> Seq(Workers)]
  <2>1. cands \in [Schedulers -> Seq(Workers)]
    BY DEF TypeInv, TypeOK
  <2>2. << >> \in Seq(Workers)
    OBVIOUS
  <2> QED BY <2>1, <2>2, Zenon
<1>3. TypeOK'
  BY <1>1, <1>2 DEF TypeInv, TypeOK, LawfulTypes, workerVars, reaperVars
<1>4. CallingHasCands'
  BY DEF TypeInv, TypeOK, CallingHasCands, Handled
<1>5. NothingNew
  BY DEF NothingNew, TypeInv, TypeOK, Handled
<1> QED BY <1>3, <1>4, <1>5 DEF Routine

\* An action that does not touch the relays.
LEMMA RelaysIdleRoutine ==
  ASSUME TypeInv, LawfulTypes, UNCHANGED <<relay, batch, cands>>,
         leader' \in Schedulers \cup {None}, late' \subseteq Workers \X Jobs,
         up' \in [Workers -> BOOLEAN], slot' \in [Workers -> [Slots -> Task \cup {Free}]],
         known' \in [Schedulers -> SUBSET Workers], sweep' \in [Schedulers -> SUBSET Workers],
         forget' \in [Schedulers -> Workers \cup {None}], faults' \in 0..MaxFaults
  PROVE  Routine
BY DEF TypeInv, TypeOK, LawfulTypes, CallingHasCands, Routine, NothingNew

\* The relay moves on to its next candidate.
LEMMA NextCandidateRoutine ==
  ASSUME TypeInv, LawfulTypes, NEW s \in Schedulers, relay[s] \in {"calling", "acked"},
         NextCandidate(s), late' \subseteq Workers \X Jobs,
         UNCHANGED <<leader, batch, workerVars, reaperVars>>, faults' \in 0..MaxFaults
  PROVE  Routine
<1>1. Tail(cands[s]) \in Seq(Workers) /\ (Len(cands[s]) # 1 => Tail(cands[s]) # << >>)
  BY HeadOfCands
<1>2. relay' \in [Schedulers -> RelayStates] /\ cands' \in [Schedulers -> Seq(Workers)]
  BY <1>1 DEF TypeInv, TypeOK, NextCandidate, RelayStates
<1>3. TypeOK'
  BY <1>2 DEF TypeInv, TypeOK, LawfulTypes, workerVars, reaperVars
<1>4. CallingHasCands'
  <2> SUFFICES ASSUME NEW t \in Schedulers, relay'[t] \in {"calling", "acked"}
               PROVE  cands'[t] # << >>
    BY DEF CallingHasCands
  <2>1. CASE t = s
    BY <2>1, <1>1 DEF TypeInv, TypeOK, NextCandidate
  <2>2. CASE t # s
    BY <2>2 DEF TypeInv, TypeOK, CallingHasCands, NextCandidate
  <2> QED BY <2>1, <2>2
<1>5. NothingNew
  BY DEF NothingNew, TypeInv, TypeOK, NextCandidate
<1> QED BY <1>3, <1>4, <1>5 DEF Routine

\* A lawful step keeps the tables well typed.
LEMMA LawfulTypesHold == Lawful => LawfulTypes
BY DEF Lawful, Evolves, LawfulTypes, StoreTypeOK

\* One step of a relay, other than the start of a drain.
LEMMA RelayRoutine ==
  ASSUME TypeInv, Lawful, NEW s \in Schedulers, NEW e \in batch[s],
         \/ Reconcile(s, e) \/ AbandonCommand(s, e) \/ AbandonJob(s, e)
         \/ Dispatch(s, e) \/ MarkDispatched(s, e) \/ Defer(s, e)
  PROVE  Routine
<1> USE LawfulTypesHold
<1>1. ASSUME NoFault \/ Fault("store_error") PROVE faults' \in 0..MaxFaults
  BY <1>1, PipelineAssumption DEF TypeInv, TypeOK, NoFault, Fault
<1>2. CASE Reconcile(s, e) \/ AbandonJob(s, e) \/ MarkDispatched(s, e) \/ Defer(s, e)
  BY <1>1, <1>2, HandledRoutine, Zenon
  DEF Reconcile, AbandonJob, MarkDispatched, Defer, LoggedWrite
<1>3. CASE AbandonCommand(s, e)
  <2>1. /\ relay' = [relay EXCEPT ![s] = "abandon"]
        /\ UNCHANGED <<leader, batch, cands, late, workerVars, reaperVars>>
        /\ faults' \in 0..MaxFaults
    BY <1>1, <1>3 DEF AbandonCommand, LoggedWrite
  <2>2. TypeOK'
    BY <2>1 DEF TypeInv, TypeOK, LawfulTypes, workerVars, reaperVars, RelayStates
  <2>3. CallingHasCands'
    BY <2>1 DEF TypeInv, TypeOK, CallingHasCands
  <2>4. NothingNew
    BY <2>1 DEF NothingNew, TypeInv, TypeOK
  <2> QED BY <2>2, <2>3, <2>4 DEF Routine
<1>4. CASE Dispatch(s, e)
  <2>1. PICK c \in CandidateLists(s) :
           /\ cands' = [cands EXCEPT ![s] = c]
           /\ relay' = [relay EXCEPT ![s] = IF c = << >> THEN "defer" ELSE "calling"]
    BY <1>4, Zenon DEF Dispatch
  <2>2. UNCHANGED <<leader, batch, late, workerVars, reaperVars, faults>>
    BY <1>4 DEF Dispatch
  <2>3. c \in Seq(Workers)
    <3>1. PICK n \in 0..Cardinality(MaybeFresh(s)) : c \in [1..n -> MaybeFresh(s)]
      BY DEF CandidateLists, Lists
    <3>2. MaybeFresh(s) \subseteq Workers
      BY DEF MaybeFresh, TypeInv, TypeOK
    <3>3. n \in Nat
      OBVIOUS
    <3> QED BY <3>1, <3>2, <3>3
  <2>4. relay' \in [Schedulers -> RelayStates] /\ cands' \in [Schedulers -> Seq(Workers)]
    BY <2>1, <2>3 DEF TypeInv, TypeOK, RelayStates
  <2>5. TypeOK'
    BY <2>2, <2>4 DEF TypeInv, TypeOK, LawfulTypes, workerVars, reaperVars
  <2>6. CallingHasCands'
    <3> SUFFICES ASSUME NEW t \in Schedulers, relay'[t] \in {"calling", "acked"}
                 PROVE  cands'[t] # << >>
      BY DEF CallingHasCands
    <3>1. CASE t = s
      BY <3>1, <2>1 DEF TypeInv, TypeOK
    <3>2. CASE t # s
      BY <3>2, <2>1 DEF TypeInv, TypeOK, CallingHasCands
    <3> QED BY <3>1, <3>2
  <2>7. NothingNew
    BY <2>1, <2>2 DEF NothingNew, TypeInv, TypeOK
  <2> QED BY <2>5, <2>6, <2>7 DEF Routine
<1> QED BY <1>2, <1>3, <1>4

\* A call that ends without an acknowledgement.
LEMMA FailedCallRoutine ==
  ASSUME TypeInv, Lawful, NEW s \in Schedulers, NEW e \in batch[s],
         CallRefused(s, e) \/ CallTimesOut(s, e) \/ AckLost(s, e)
  PROVE  Routine
<1>1. LawfulTypes
  BY LawfulTypesHold
<1>2. NextCandidate(s) /\ relay[s] \in {"calling", "acked"} /\ UNCHANGED <<leader, batch, workerVars, reaperVars>>
  BY DEF CallRefused, CallTimesOut, AckLost, Reject, workerVars
<1>3. late' \subseteq Workers \X Jobs
  <2>1. Head(cands[s]) \in Workers /\ outbox[e.row].job \in Jobs
    BY <1>2, HeadOfCands, CurrentRow
  <2>2. late' = late \/ late' = late \cup {<<Head(cands[s]), outbox[e.row].job>>}
    BY DEF CallRefused, CallTimesOut, AckLost
  <2>3. late \subseteq Workers \X Jobs
    BY DEF TypeInv, TypeOK
  <2> QED BY <2>1, <2>2, <2>3
<1>4. faults' \in 0..MaxFaults
  <2>1. NoFault \/ \E kind \in FaultKinds : Fault(kind)
    <3>1. NoFault \/ Fault("store_error") \/ Fault("timeout") \/ Fault("ack_lost")
      BY DEF CallRefused, CallTimesOut, AckLost, Reject, NoFault
    <3> QED BY <3>1 DEF Fault
  <2> QED BY <2>1, FaultBounded DEF TypeInv
<1> QED BY <1>1, <1>2, <1>3, <1>4, NextCandidateRoutine

\* Writing one slot.
LEMMA SlotUpdate ==
  ASSUME NEW T, NEW f \in [Workers -> [Slots -> T]], NEW w \in Workers, NEW k \in Slots, NEW x \in T
  PROVE  [f EXCEPT ![w][k] = x] \in [Workers -> [Slots -> T]]
OBVIOUS

\* The slots after a job was accepted or refused, started or finished.
LEMMA SlotTypes ==
  ASSUME TypeOK, NEW w \in Workers
  PROVE  /\ \A j \in Jobs : Accept(w, j) \/ Reject(w, j)
                             => slot' \in [Workers -> [Slots -> Task \cup {Free}]]
         /\ \A k \in Slots : StartRun(w, k) \/ FinishRun(w, k)
                             => slot' \in [Workers -> [Slots -> Task \cup {Free}]]
<1> DEFINE T == Task \cup {Free}
<1>1. slot \in [Workers -> [Slots -> T]]
  BY DEF TypeOK
<1>2. ASSUME NEW j \in Jobs, Accept(w, j) \/ Reject(w, j)
      PROVE  slot' \in [Workers -> [Slots -> T]]
  <2>1. CASE Accept(w, j)
    <3>1. PICK k \in Slots : slot' = [slot EXCEPT ![w][k] = [job |-> j, stage |-> "accepted"]]
      BY <2>1, Zenon DEF Accept, FreeSlots
    <3>2. [job |-> j, stage |-> "accepted"] \in T
      BY DEF Task
    <3> HIDE DEF T
    <3> QED BY <1>1, <3>1, <3>2, SlotUpdate
  <2>2. CASE Reject(w, j)
    BY <1>1, <2>2 DEF Reject
  <2> QED BY <1>2, <2>1, <2>2
<1>3. ASSUME NEW k \in Slots, StartRun(w, k) \/ FinishRun(w, k)
      PROVE  slot' \in [Workers -> [Slots -> T]]
  <2>1. slot[w][k] \in Task
    BY <1>1, <1>3 DEF StartRun, FinishRun
  <2> DEFINE x == [slot[w][k] EXCEPT !.stage = "running"]
  <2>2. x \in T /\ Free \in T
    BY <2>1 DEF Task
  <2>3. slot' = [slot EXCEPT ![w][k] = x] \/ slot' = [slot EXCEPT ![w][k] = Free]
    BY <1>3 DEF StartRun, FinishRun
  <2> HIDE DEF T, x
  <2>4. CASE slot' = [slot EXCEPT ![w][k] = x]
    BY <1>1, <2>2, <2>4, SlotUpdate
  <2>5. CASE slot' = [slot EXCEPT ![w][k] = Free]
    BY <1>1, <2>2, <2>5, SlotUpdate
  <2> QED BY <2>3, <2>4, <2>5
<1> QED BY <1>2, <1>3

\* ExecuteJob counts at most one fault.
LEMMA AcceptFaults ==
  ASSUME TypeOK, NEW w \in Workers, NEW j \in Jobs, Accept(w, j) \/ Reject(w, j)
  PROVE  faults' \in 0..MaxFaults
BY PipelineAssumption DEF TypeOK, Accept, Reject, Fault, NoFault

\* Workers and late calls do not touch the relays.
LEMMA WorkerRoutine ==
  ASSUME TypeInv, Lawful, NEW w \in Workers,
         \/ RunStep(w) \/ CrashWorker(w) \/ RestartWorker(w)
         \/ \E j \in Jobs : LateCall(w, j)
  PROVE  Routine
<1>1. TypeOK /\ LawfulTypes
  BY LawfulTypesHold DEF TypeInv
<1>2. UNCHANGED <<schedVars, reaperVars>>
  BY Zenon DEF RunStep, StartRun, FinishRun, CrashWorker, RestartWorker, LateCall
<1>3. /\ slot' \in [Workers -> [Slots -> Task \cup {Free}]] /\ up' \in [Workers -> BOOLEAN]
      /\ late' \subseteq Workers \X Jobs /\ faults' \in 0..MaxFaults
  <2>1. ASSUME NEW k \in Slots, StartRun(w, k) \/ FinishRun(w, k) PROVE <1>3!:
    <3>1. slot' \in [Workers -> [Slots -> Task \cup {Free}]]
      BY <1>1, <2>1, SlotTypes
    <3>2. late' = late /\ up' = up /\ faults' \in 0..MaxFaults
      BY <1>1, <2>1, PipelineAssumption
      DEF TypeOK, StartRun, FinishRun, LoggedWrite, Fault, NoFault
    <3> QED BY <1>1, <3>1, <3>2 DEF TypeOK
  <2>2. ASSUME NEW j \in Jobs, LateCall(w, j) PROVE <1>3!:
    <3>1. slot' \in [Workers -> [Slots -> Task \cup {Free}]] /\ faults' \in 0..MaxFaults
      BY <1>1, <2>2, SlotTypes, AcceptFaults DEF LateCall
    <3> QED BY <1>1, <2>2, <3>1 DEF TypeOK, LateCall
  <2>3. CASE CrashWorker(w)
    BY <1>1, <2>3, PipelineAssumption DEF TypeOK, CrashWorker, Fault
  <2>4. CASE RestartWorker(w)
    BY <1>1, <2>4 DEF TypeOK, RestartWorker
  <2> QED BY <2>1, <2>2, <2>3, <2>4 DEF RunStep
<1> QED BY <1>1, <1>2, <1>3, RelaysIdleRoutine DEF schedVars, reaperVars, TypeOK

\* Neither do heartbeats and the reaper.
LEMMA RegistryRoutine ==
  ASSUME TypeInv, Lawful, NEW s \in Schedulers,
         \/ ReaperStep(s) \/ \E w \in Workers : Heartbeat(w, s)
         \/ \E dead \in SUBSET Workers : StartSweep(s, dead)
  PROVE  Routine
<1>1. TypeOK /\ LawfulTypes
  BY LawfulTypesHold DEF TypeInv
<1>2. UNCHANGED <<schedVars, late, workerVars>>
  BY DEF ReaperStep, Reclaim, Forget, Heartbeat, StartSweep
<1>3. known' \in [Schedulers -> SUBSET Workers] /\ sweep' \in [Schedulers -> SUBSET Workers]
  <2>1. CASE ReaperStep(s)
    <3>1. /\ known' = known \/ known' = [known EXCEPT ![s] = @ \ {forget[s]}]
          /\ sweep' = sweep \/ \E w \in Workers : sweep' = [sweep EXCEPT ![s] = @ \ {w}]
      BY <2>1 DEF ReaperStep, Reclaim, Forget
    <3>2. known \in [Schedulers -> SUBSET Workers] /\ sweep \in [Schedulers -> SUBSET Workers]
      BY <1>1 DEF TypeOK
    <3> QED BY <3>1, <3>2
  <2>2. CASE \E w \in Workers : Heartbeat(w, s)
    BY <1>1, <2>2 DEF TypeOK, Heartbeat, Record
  <2>3. CASE \E dead \in SUBSET Workers : StartSweep(s, dead)
    BY <1>1, <2>3 DEF TypeOK, StartSweep
  <2> QED BY <2>1, <2>2, <2>3
<1>4. forget' \in [Schedulers -> Workers \cup {None}]
  <2>1. forget' = forget \/ \E w \in Workers \cup {None} : forget' = [forget EXCEPT ![s] = w]
    BY DEF ReaperStep, Reclaim, Forget, Heartbeat, StartSweep
  <2>2. forget \in [Schedulers -> Workers \cup {None}]
    BY <1>1 DEF TypeOK
  <2> QED BY <2>1, <2>2
<1>5. faults' \in 0..MaxFaults
  <2>1. NoFault \/ Fault("store_error") \/ Fault("false_suspicion")
    BY DEF ReaperStep, Reclaim, Forget, Heartbeat, StartSweep, NoFault
  <2>2. NoFault \/ \E kind \in FaultKinds : Fault(kind)
    BY <2>1 DEF Fault
  <2> QED BY <1>1, <2>2, FaultBounded
<1> QED BY <1>1, <1>2, <1>3, <1>4, <1>5, RelaysIdleRoutine DEF schedVars, workerVars, TypeOK

\* Neither do elections, resignations and submissions.
LEMMA LeaderRoutine ==
  ASSUME TypeInv, Lawful, NEW s \in Schedulers,
         StepDown \/ Elect(s) \/ \E j \in Jobs : SubmitJob(s, j)
  PROVE  Routine
<1>1. TypeOK /\ LawfulTypes
  BY LawfulTypesHold DEF TypeInv
<1>2. UNCHANGED <<relay, batch, cands, late, workerVars, reaperVars>>
  BY DEF StepDown, Elect, SubmitJob, schedVars
<1>3. leader' \in Schedulers \cup {None} /\ faults' \in 0..MaxFaults
  BY <1>1, PipelineAssumption DEF TypeOK, StepDown, Elect, SubmitJob, schedVars, Fault
<1> QED BY <1>1, <1>2, <1>3, RelaysIdleRoutine DEF workerVars, reaperVars, TypeOK

\* A scheduler crash only forgets.
LEMMA CrashRoutine ==
  ASSUME TypeInv, Lawful, NEW s \in Schedulers, CrashScheduler(s)
  PROVE  Routine
<1>1. TypeOK /\ LawfulTypes
  BY LawfulTypesHold DEF TypeInv
<1>2. late' \subseteq Workers \X Jobs
  <2>1. ASSUME NEW e \in batch[s], relay[s] = "calling"
        PROVE  Head(cands[s]) \in Workers /\ outbox[e.row].job \in Jobs
    BY <2>1, HeadOfCands, CurrentRow
  <2>2. CASE late' = late
    BY <1>1, <2>2 DEF TypeOK
  <2>3. ASSUME NEW e \in batch[s], relay[s] = "calling",
               late' = late \cup {<<Head(cands[s]), outbox[e.row].job>>}
        PROVE  late' \subseteq Workers \X Jobs
    BY <1>1, <2>1, <2>3 DEF TypeOK
  <2> QED BY <2>2, <2>3 DEF CrashScheduler
<1>3. /\ leader' \in Schedulers \cup {None} /\ faults' \in 0..MaxFaults
      /\ relay' \in [Schedulers -> RelayStates] /\ batch' \in [Schedulers -> SUBSET Claim]
  <2>1. /\ leader' = None \/ leader' = leader
        /\ relay' = [relay EXCEPT ![s] = "idle"] /\ batch' = [batch EXCEPT ![s] = {}]
    BY DEF CrashScheduler
  <2>2. /\ leader \in Schedulers \cup {None} /\ relay \in [Schedulers -> RelayStates]
        /\ batch \in [Schedulers -> SUBSET Claim]
    BY <1>1 DEF TypeOK
  <2>3. "idle" \in RelayStates
    BY DEF RelayStates
  <2>4. \E kind \in FaultKinds : Fault(kind)
    BY DEF CrashScheduler, Fault
  <2>5. faults' \in 0..MaxFaults
    BY <1>1, <2>4, FaultBounded, Zenon
  <2> QED BY <2>1, <2>2, <2>3, <2>5
<1>4. cands' \in [Schedulers -> Seq(Workers)]
  BY <1>1 DEF CrashScheduler, TypeOK
<1>5. /\ known' \in [Schedulers -> SUBSET Workers] /\ sweep' \in [Schedulers -> SUBSET Workers]
      /\ forget' \in [Schedulers -> Workers \cup {None}]
  BY <1>1 DEF CrashScheduler, TypeOK
<1>6. up' = up /\ slot' = slot
  BY DEF CrashScheduler, workerVars
<1>7. TypeOK'
  BY <1>1, <1>2, <1>3, <1>4, <1>5, <1>6, Zenon DEF TypeOK, LawfulTypes
<1>8. CallingHasCands'
  BY <1>1 DEF CrashScheduler, TypeOK, TypeInv, CallingHasCands
<1>9. NothingNew
  BY <1>1 DEF CrashScheduler, TypeOK, NothingNew
<1> QED BY <1>7, <1>8, <1>9 DEF Routine
=============================================================================
