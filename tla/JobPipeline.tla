----------------------------- MODULE JobPipeline -----------------------------
(***************************************************************************)
(* The path of a job from submission to its terminal status: the leader's  *)
(* SubmitJob, the outbox relay and its dispatch calls, the workers that    *)
(* execute, their heartbeats, and the reaper that reclaims the jobs of a   *)
(* worker presumed dead.  The processes share only the two tables of       *)
(* JobStore; every database statement, and every call to a worker, is a    *)
(* step of its own, so all of them interleave.                             *)
(*                                                                         *)
(* Leadership is checked once, when a drain or a sweep begins, and both    *)
(* carry on if it is lost: relays of two schedulers can work at once.      *)
(*                                                                         *)
(* FaultKinds names the faults a behaviour may contain, MaxFaults bounds   *)
(* how many of them occur.                                                 *)
(***************************************************************************)
EXTENDS JobStore

CONSTANTS Schedulers,            \* scheduler instance names (3 in compose)
          Slots,                 \* one worker's execution slots (its capacity)
          MaxExecutionAttempts,  \* relay.go: 3
          MaxDispatchAttempts,   \* relay.go: 30
          DrainBatch,            \* relay.go: 50
          FaultKinds,            \* the faults that may happen
          MaxFaults              \* how many of them

ASSUME PipelineAssumption ==
  /\ None \notin Schedulers
  /\ None \notin Jobs
  /\ MaxExecutionAttempts \in Nat \ {0}
  /\ MaxDispatchAttempts \in Nat \ {0}
  /\ DrainBatch \in Nat \ {0}
  /\ MaxFaults \in Nat

VARIABLES leader,    \* the scheduler whose IsLeader() is true, or None
          relay,     \* relay[s]: where the relay of s stands in drain/handle
          batch,     \* batch[s]: claimed commands it has not finished handling
          cands,     \* cands[s]: workers the current Dispatch has not given up on
          late,      \* <<worker, job>> calls whose caller no longer waits
          up,        \* up[w]: the worker process is running
          slot,      \* slot[w][k]: the job in a slot, and whether it is marked running
          known,     \* known[s]: the workers in the heartbeat registry of s
          sweep,     \* sweep[s]: workers its reaper still has to reclaim from
          forget,    \* forget[s]: reclaimed, about to leave the registry
          faults     \* faults so far

schedVars == <<leader, relay, batch, cands>>
workerVars == <<up, slot>>
reaperVars == <<known, sweep, forget>>
vars == <<jobs, outbox, schedVars, late, workerVars, reaperVars, faults>>

\* "idle":    waiting for a tick or a wake
\* "handle":  about to handle the oldest command of its batch
\* "calling": ExecuteJob sent to Head(cands)
\* "acked":   Head(cands) accepted; the command is not yet marked
\* "defer":   no worker accepted; the attempt is not yet recorded
\* "abandon": the command is marked failed, its job not yet
RelayStates == {"idle", "handle", "calling", "acked", "defer", "abandon"}

Claim == [row : Nat, verdict : {"reconcile", "abandon", "dispatch"}]

Free == [job |-> None, stage |-> "free"]

Task == [job : Jobs, stage : {"accepted", "running"}]

-----------------------------------------------------------------------------
Fault(kind) ==
  /\ kind \in FaultKinds
  /\ faults < MaxFaults
  /\ faults' = faults + 1

NoFault == UNCHANGED faults

\* A write whose error the caller only logs: it happens, or it is lost.
LoggedWrite(Write) ==
  \/ Write /\ NoFault
  \/ Fault("store_error") /\ UNCHANGED <<jobs, outbox>>

-----------------------------------------------------------------------------
(* Raft leadership, as the schedulers observe it through IsLeader(). *)

Elect(s) ==
  /\ leader = None
  /\ leader' = s
  /\ UNCHANGED <<jobs, outbox, relay, batch, cands, late, workerVars, reaperVars, faults>>

StepDown ==
  /\ leader # None
  /\ Fault("step_down")
  /\ leader' = None
  /\ UNCHANGED <<jobs, outbox, relay, batch, cands, late, workerVars, reaperVars>>

\* schedulersvc.SubmitJob: refused unless leading; job and command commit together.
SubmitJob(s, j) ==
  /\ leader = s
  /\ CreateJobWithOutbox(j)
  /\ UNCHANGED <<schedVars, late, workerVars, reaperVars, faults>>

-----------------------------------------------------------------------------
(* The relay of scheduler s. *)

\* Mutant: handle() without its reconcile check.
VerdictNoReconcile(r) ==
  IF \/ jobs[outbox[r].job].attempts >= MaxExecutionAttempts
     \/ outbox[r].attempts >= MaxDispatchAttempts THEN "abandon"
  ELSE "dispatch"

\* Mutant: the budgets are spent one attempt early.
VerdictEarly(r) ==
  LET j == jobs[outbox[r].job] IN
  IF j.status # "pending" THEN "reconcile"
  ELSE IF \/ j.attempts + 1 >= MaxExecutionAttempts
          \/ outbox[r].attempts + 1 >= MaxDispatchAttempts THEN "abandon"
  ELSE "dispatch"

\* Mutant: > for >=.
VerdictLate(r) ==
  LET j == jobs[outbox[r].job] IN
  IF j.status # "pending" THEN "reconcile"
  ELSE IF \/ j.attempts > MaxExecutionAttempts
          \/ outbox[r].attempts > MaxDispatchAttempts THEN "abandon"
  ELSE "dispatch"

\* What handle() will do with row r, decided by the joined row as it was read.
Verdict(r) ==
  LET j == jobs[outbox[r].job] IN
  IF j.status # "pending" THEN "reconcile"
  ELSE IF \/ j.attempts >= MaxExecutionAttempts
          \/ outbox[r].attempts >= MaxDispatchAttempts THEN "abandon"
  ELSE "dispatch"

\* The command being handled: the oldest of the batch.
IsCurrent(s, e) == e \in batch[s] /\ \A f \in batch[s] : e.row <= f.row

\* handle() returns: on to the next command, or the drain is over.
Handled(s, e) ==
  /\ batch' = [batch EXCEPT ![s] = @ \ {e}]
  /\ relay' = [relay EXCEPT ![s] = IF batch[s] = {e} THEN "idle" ELSE "handle"]

\* Mutant: a claim closes its commands before they are handled.
DrainAndClose(s) ==
  /\ relay[s] = "idle"
  /\ leader = s
  /\ PendingRows # {}
  /\ batch' = [batch EXCEPT ![s] =
                 {[row |-> r, verdict |-> Verdict(r)] : r \in ClaimOutbox(DrainBatch)}]
  /\ relay' = [relay EXCEPT ![s] = "handle"]
  /\ outbox' = [r \in Rows |-> IF r \in ClaimOutbox(DrainBatch)
                               THEN [outbox[r] EXCEPT !.status = "dispatched"] ELSE outbox[r]]
  /\ UNCHANGED <<jobs, leader, cands, late, workerVars, reaperVars, faults>>

Drain(s) ==
  /\ relay[s] = "idle"
  /\ leader = s
  /\ PendingRows # {}
  /\ batch' = [batch EXCEPT ![s] =
                 {[row |-> r, verdict |-> Verdict(r)] : r \in ClaimOutbox(DrainBatch)}]
  /\ relay' = [relay EXCEPT ![s] = "handle"]
  /\ UNCHANGED <<jobs, outbox, leader, cands, late, workerVars, reaperVars, faults>>

Reconcile(s, e) ==
  /\ relay[s] = "handle" /\ IsCurrent(s, e) /\ e.verdict = "reconcile"
  /\ LoggedWrite(MarkOutboxDispatched(e.row))
  /\ Handled(s, e)
  /\ UNCHANGED <<leader, cands, late, workerVars, reaperVars>>

\* abandon() is two statements; this is the first ...
AbandonCommand(s, e) ==
  /\ relay[s] = "handle" /\ IsCurrent(s, e) /\ e.verdict = "abandon"
  /\ LoggedWrite(MarkOutboxFailed(e.row))
  /\ relay' = [relay EXCEPT ![s] = "abandon"]
  /\ UNCHANGED <<leader, batch, cands, late, workerVars, reaperVars>>

\* ... and this the second, taken whether or not the first succeeded.
AbandonJob(s, e) ==
  /\ relay[s] = "abandon" /\ IsCurrent(s, e)
  /\ LoggedWrite(MarkFinished(outbox[e.row].job, FALSE))
  /\ Handled(s, e)
  /\ UNCHANGED <<leader, cands, late, workerVars, reaperVars>>

\* Registry entries whose heartbeat may be fresh: one on the current dead list
\* is only if the worker runs, so that a heartbeat has arrived since.
MaybeFresh(s) == {w \in known[s] : up[w] \/ w \notin sweep[s] \cup {forget[s]}}

\* The lists Available() may return: fresh workers with headroom, in some order.
\* The reported load decides which and in what order, and lags behind the worker.
CandidateLists(s) == Lists(MaybeFresh(s))

Dispatch(s, e) ==
  /\ relay[s] = "handle" /\ IsCurrent(s, e) /\ e.verdict = "dispatch"
  /\ \E c \in CandidateLists(s) :
       /\ cands' = [cands EXCEPT ![s] = c]
       /\ relay' = [relay EXCEPT ![s] = IF c = << >> THEN "defer" ELSE "calling"]
  /\ UNCHANGED <<jobs, outbox, leader, batch, late, workerVars, reaperVars, faults>>

\* The call failed: offer the job to the next candidate, if there is one.
NextCandidate(s) ==
  /\ cands' = [cands EXCEPT ![s] = Tail(@)]
  /\ relay' = [relay EXCEPT ![s] = IF Len(cands[s]) = 1 THEN "defer" ELSE "calling"]

\* perAttemptTimeout expires while the request is still on its way.
CallTimesOut(s, e) ==
  /\ relay[s] = "calling" /\ IsCurrent(s, e)
  /\ Fault("timeout")
  /\ late' = late \cup {<<Head(cands[s]), outbox[e.row].job>>}
  /\ NextCandidate(s)
  /\ UNCHANGED <<jobs, outbox, leader, batch, workerVars, reaperVars>>

\* The worker died after accepting and before its answer got through.
AckLost(s, e) ==
  /\ relay[s] = "acked" /\ IsCurrent(s, e)
  /\ ~up[Head(cands[s])]
  /\ Fault("ack_lost")
  /\ NextCandidate(s)
  /\ UNCHANGED <<jobs, outbox, leader, batch, late, workerVars, reaperVars>>

\* The placement is then proposed to the raft log (ApplyPlacement); an error is
\* only logged and nothing here reads that log.
MarkDispatched(s, e) ==
  /\ relay[s] = "acked" /\ IsCurrent(s, e)
  /\ LoggedWrite(MarkOutboxDispatched(e.row))
  /\ Handled(s, e)
  /\ cands' = [cands EXCEPT ![s] = << >>]
  /\ UNCHANGED <<leader, late, workerVars, reaperVars>>

Defer(s, e) ==
  /\ relay[s] = "defer" /\ IsCurrent(s, e)
  /\ LoggedWrite(RecordOutboxFailure(e.row))
  /\ Handled(s, e)
  /\ UNCHANGED <<leader, cands, late, workerVars, reaperVars>>

\* The process dies and is restarted: everything it held in memory is gone.
\* A call it was making may still reach the worker.
CrashScheduler(s) ==
  /\ Fault("scheduler_crash")
  /\ leader' = IF leader = s THEN None ELSE leader
  /\ relay' = [relay EXCEPT ![s] = "idle"]
  /\ batch' = [batch EXCEPT ![s] = {}]
  /\ cands' = [cands EXCEPT ![s] = << >>]
  /\ known' = [known EXCEPT ![s] = {}]
  /\ sweep' = [sweep EXCEPT ![s] = {}]
  /\ forget' = [forget EXCEPT ![s] = None]
  /\ \/ late' = late
     \/ /\ relay[s] = "calling" /\ "timeout" \in FaultKinds
        /\ \E e \in batch[s] :
             /\ IsCurrent(s, e)
             /\ late' = late \cup {<<Head(cands[s]), outbox[e.row].job>>}
  /\ UNCHANGED <<jobs, outbox, workerVars>>

-----------------------------------------------------------------------------
(* Workers. *)

FreeSlots(w) == {k \in Slots : slot[w][k] = Free}

\* ExecuteJob: a slot is reserved, MarkScheduled commits, the job starts.
Accept(w, j) ==
  /\ up[w]
  /\ \E k \in FreeSlots(w) :
       slot' = [slot EXCEPT ![w][k] = [job |-> j, stage |-> "accepted"]]
  /\ MarkScheduled(j, w)
  /\ NoFault

\* ExecuteJob returns an error, or the worker cannot be reached.  When
\* MarkScheduled reports an error its UPDATE may have committed all the same.
Reject(w, j) ==
  /\ \/ /\ ~up[w] \/ FreeSlots(w) = {}
        /\ UNCHANGED <<jobs, outbox, faults>>
     \/ /\ up[w] /\ FreeSlots(w) # {}
        /\ Fault("store_error")
        /\ UNCHANGED <<jobs, outbox>> \/ MarkScheduled(j, w)
  /\ UNCHANGED slot

CallAcked(s, e) ==
  /\ relay[s] = "calling" /\ IsCurrent(s, e)
  /\ Accept(Head(cands[s]), outbox[e.row].job)
  /\ relay' = [relay EXCEPT ![s] = "acked"]
  /\ UNCHANGED <<leader, batch, cands, late, up, reaperVars>>

CallRefused(s, e) ==
  /\ relay[s] = "calling" /\ IsCurrent(s, e)
  /\ Reject(Head(cands[s]), outbox[e.row].job)
  /\ NextCandidate(s)
  /\ UNCHANGED <<leader, batch, late, up, reaperVars>>

\* A call nobody waits for reaches its worker; the answer is dropped.
LateCall(w, j) ==
  /\ <<w, j>> \in late
  /\ late' = late \ {<<w, j>>}
  /\ Accept(w, j) \/ Reject(w, j)
  /\ UNCHANGED <<schedVars, up, reaperVars>>

\* run(): MarkRunning.  On an error run() returns and gives the slot back,
\* and the UPDATE may have committed all the same.
StartRun(w, k) ==
  /\ slot[w][k] # Free /\ slot[w][k].stage = "accepted"
  /\ \/ /\ MarkRunning(slot[w][k].job)
        /\ slot' = [slot EXCEPT ![w][k].stage = "running"]
        /\ NoFault
     \/ /\ Fault("store_error")
        /\ MarkRunning(slot[w][k].job) \/ UNCHANGED <<jobs, outbox>>
        /\ slot' = [slot EXCEPT ![w][k] = Free]
  /\ UNCHANGED <<schedVars, late, up, reaperVars>>

\* run(): execute() returned, with or without an error; MarkFinished.  The
\* outcome then goes to a statemanager replica, which nothing here reads.
FinishRun(w, k) ==
  /\ slot[w][k] # Free /\ slot[w][k].stage = "running"
  /\ \E succeeded \in BOOLEAN : LoggedWrite(MarkFinished(slot[w][k].job, succeeded))
  /\ slot' = [slot EXCEPT ![w][k] = Free]
  /\ UNCHANGED <<schedVars, late, up, reaperVars>>

CrashWorker(w) ==
  /\ up[w]
  /\ Fault("worker_crash")
  /\ up' = [up EXCEPT ![w] = FALSE]
  /\ slot' = [slot EXCEPT ![w] = [k \in Slots |-> Free]]
  /\ late' = {c \in late : c[1] # w}
  /\ UNCHANGED <<jobs, outbox, schedVars, reaperVars>>

\* docker compose restarts the container ("restart: unless-stopped").
RestartWorker(w) ==
  /\ ~up[w]
  /\ "worker_restart" \in FaultKinds
  /\ up' = [up EXCEPT ![w] = TRUE]
  /\ UNCHANGED <<jobs, outbox, schedVars, late, slot, reaperVars, faults>>

-----------------------------------------------------------------------------
(* Heartbeats, and the reaper of scheduler s. *)

Record(s, w) == known' = [known EXCEPT ![s] = @ \cup {w}]

\* RegisterWorker or Heartbeat reaches the registry of s.  One that finds the
\* worker registered only renews LastSeen, which MaybeFresh leaves open.
Heartbeat(w, s) ==
  /\ up[w]
  /\ w \notin known[s]
  /\ Record(s, w)
  /\ UNCHANGED <<jobs, outbox, schedVars, late, workerVars, sweep, forget, faults>>

\* A sweep begins with the list of registry entries older than the dead TTL.
\* A worker that is up is on it only if its heartbeats failed to arrive.
StartSweep(s, dead) ==
  /\ leader = s
  /\ sweep[s] = {} /\ forget[s] = None
  /\ dead # {} /\ dead \subseteq known[s]
  /\ IF \E w \in dead : up[w] THEN Fault("false_suspicion") ELSE NoFault
  /\ sweep' = [sweep EXCEPT ![s] = dead]
  /\ UNCHANGED <<jobs, outbox, schedVars, late, workerVars, known, forget>>

\* On an error the sweep goes on to the next worker without Forget.
Reclaim(s, w) ==
  /\ w \in sweep[s] /\ forget[s] = None
  /\ sweep' = [sweep EXCEPT ![s] = @ \ {w}]
  /\ \/ /\ ReclaimJobs(w) /\ NoFault
        /\ forget' = [forget EXCEPT ![s] = w]
     \/ /\ Fault("store_error")
        /\ ReclaimJobs(w) \/ UNCHANGED <<jobs, outbox>>
        /\ UNCHANGED forget
  /\ UNCHANGED <<schedVars, late, workerVars, known>>

Forget(s) ==
  /\ forget[s] # None
  /\ known' = [known EXCEPT ![s] = @ \ {forget[s]}]
  /\ forget' = [forget EXCEPT ![s] = None]
  /\ UNCHANGED <<jobs, outbox, schedVars, late, workerVars, sweep, faults>>

-----------------------------------------------------------------------------
Init ==
  /\ StoreInit
  /\ leader = None
  /\ relay = [s \in Schedulers |-> "idle"]
  /\ batch = [s \in Schedulers |-> {}]
  /\ cands = [s \in Schedulers |-> << >>]
  /\ late = {}
  /\ up = [w \in Workers |-> TRUE]
  /\ slot = [w \in Workers |-> [k \in Slots |-> Free]]
  /\ known = [s \in Schedulers |-> Workers]   \* every worker has registered
  /\ sweep = [s \in Schedulers |-> {}]
  /\ forget = [s \in Schedulers |-> None]
  /\ faults = 0

\* One step of the relay's own code.
RelayStep(s) ==
  \/ Drain(s)
  \/ \E e \in batch[s] :
       \/ Reconcile(s, e) \/ AbandonCommand(s, e) \/ AbandonJob(s, e)
       \/ Dispatch(s, e) \/ MarkDispatched(s, e) \/ Defer(s, e)

\* The call the relay is waiting for is answered.
CallAnswered(s) == \E e \in batch[s] : CallAcked(s, e) \/ CallRefused(s, e)

RunStep(w) == \E k \in Slots : StartRun(w, k) \/ FinishRun(w, k)

ReaperStep(s) == (\E w \in Workers : Reclaim(s, w)) \/ Forget(s)

Next ==
  \/ StepDown
  \/ \E s \in Schedulers :
       \/ Elect(s) \/ CrashScheduler(s)
       \/ \E j \in Jobs : SubmitJob(s, j)
       \/ RelayStep(s) \/ CallAnswered(s)
       \/ \E e \in batch[s] : CallTimesOut(s, e) \/ AckLost(s, e)
       \/ \E dead \in SUBSET Workers : StartSweep(s, dead)
       \/ ReaperStep(s)
       \/ \E w \in Workers : Heartbeat(w, s)
  \/ \E w \in Workers :
       \/ RunStep(w) \/ CrashWorker(w) \/ RestartWorker(w)
       \/ \E j \in Jobs : LateCall(w, j)

Spec == Init /\ [][Next]_vars

(***************************************************************************)
(* Some scheduler is eventually elected, timers keep firing on the leader, *)
(* a call is answered or times out, goroutines run, and heartbeats of a    *)
(* running worker eventually arrive.  No fault is ever required to happen. *)
(***************************************************************************)
Fairness ==
  /\ WF_vars(\E s \in Schedulers : Elect(s))
  /\ \A s \in Schedulers :
       /\ WF_vars(RelayStep(s))
       /\ WF_vars(CallAnswered(s))
       /\ WF_vars(ReaperStep(s))
       /\ \A w \in Workers :
            /\ WF_vars(Heartbeat(w, s))
            /\ WF_vars(\E dead \in SUBSET Workers :
                         w \in dead /\ (\A v \in dead : ~up[v]) /\ StartSweep(s, dead))
  /\ \A w \in Workers : WF_vars(RunStep(w))

FairSpec == Spec /\ Fairness

-----------------------------------------------------------------------------
(***************************************************************************)
(* Properties                                                              *)
(***************************************************************************)

\* Every variable holds a value of the type the code gives it.
TypeOK ==
  /\ jobs \in [Jobs -> JobRow]
  /\ outbox \in Seq(CommandRow)
  /\ leader \in Schedulers \cup {None}
  /\ relay \in [Schedulers -> RelayStates]
  /\ batch \in [Schedulers -> SUBSET Claim]
  /\ cands \in [Schedulers -> Seq(Workers)]
  /\ late \subseteq Workers \X Jobs
  /\ up \in [Workers -> BOOLEAN]
  /\ slot \in [Workers -> [Slots -> Task \cup {Free}]]
  /\ known \in [Schedulers -> SUBSET Workers]
  /\ sweep \in [Schedulers -> SUBSET Workers]
  /\ forget \in [Schedulers -> Workers \cup {None}]
  /\ faults \in 0..MaxFaults

\* README "there is no window where a job is committed but its dispatch was
\* lost": whatever the interleaving of relays, reapers, workers and faults, the
\* newest dispatch command of a pending job has not been closed as dispatched,
\* so it is still waiting in the outbox or was given up on as failed.
NoLostDispatch ==
  \A j \in Jobs : jobs[j].status = "pending" =>
    \E r \in Rows : IsNewest(r, j) /\ outbox[r].status # "dispatched"

BudgetSpent(r) ==
  \/ outbox[r].attempts >= MaxDispatchAttempts
  \/ jobs[outbox[r].job].attempts >= MaxExecutionAttempts

\* relay.go: a command is given up on only when the job's execution budget or
\* the command's own dispatch budget is spent, however stale the claim the relay
\* acts on.
FailedMeansSpent == \A r \in Rows : outbox[r].status = "failed" => BudgetSpent(r)

Abandoning(s, j) ==
  relay[s] = "abandon" /\ \E e \in batch[s] : IsCurrent(s, e) /\ outbox[e.row].job = j

\* outbox.go CreateJobWithOutbox "a committed job always has a dispatch command
\* waiting for it": a pending job has a pending command, unless a relay is
\* between the two writes that abandon both.
NoStrandedJob ==
  \A j \in Jobs : jobs[j].status = "pending" =>
    \/ \E r \in PendingRows : outbox[r].job = j
    \/ \E s \in Schedulers : Abandoning(s, j)

Executing(j) == {x \in Workers \X Slots : slot[x[1]][x[2]].job = j}

\* README "re-delivery is safe": no two workers, or slots, hold the same job.
OneExecution == \A j \in Jobs : Cardinality(Executing(j)) <= 1

\* relay.go maxExecutionAttempts "bounds how many times a job may start running
\* across worker crashes before it is failed".
ExecutionBudget == \A j \in Jobs : jobs[j].attempts <= MaxExecutionAttempts

\* relay_test.go "a running job must not be re-dispatched", and a finished one
\* neither: a job that reached a terminal status keeps it.
TerminalIsFinal ==
  [][\A j \in Jobs : jobs[j].status \in Terminal => jobs'[j].status = jobs[j].status]_vars

\* relay.go "at-least-once delivery": every submitted job eventually reaches a
\* terminal status for good.
EventuallyFinished ==
  \A j \in Jobs : jobs[j].status # "absent" ~> [](jobs[j].status \in Terminal)

LostOn(w) ==
  ~up[w] /\ \E j \in Jobs : jobs[j].assigned = w /\ jobs[j].status \in {"scheduled", "running"}

\* registry.go "the Raft leader always has fresh data no matter when it was
\* elected": the in-flight jobs of a crashed worker are eventually taken from it.
DeadWorkerReclaimed == \A w \in Workers : LostOn(w) ~> ~LostOn(w)

\* relay.go handle() "a worker accepted it, or it finished, so the dispatch
\* already happened": a job whose newest command is closed as dispatched is
\* finished, or names the worker that has it.
ClosedMeansPlaced ==
  \A j \in Jobs : \A r \in Rows :
    (IsNewest(r, j) /\ outbox[r].status = "dispatched") =>
      (jobs[j].status \in Terminal \/ jobs[j].assigned # None)

GivenUp(j) ==
  jobs[j].status = "pending" /\ \E r \in Rows : IsNewest(r, j) /\ outbox[r].status = "failed"

\* README "the intent to run a job survives a scheduler crash": every submitted
\* job eventually finishes for good, or its command was given up on.
EventuallySettled ==
  \A j \in Jobs :
    jobs[j].status # "absent" ~> [](jobs[j].status \in Terminal \/ GivenUp(j))
=============================================================================
