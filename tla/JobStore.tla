------------------------------ MODULE JobStore ------------------------------
(***************************************************************************)
(* The two Postgres tables the cluster coordinates through, and the        *)
(* statements internal/store issues against them.  Each operator is one    *)
(* SQL statement or one transaction, so it is atomic; none of the UPDATEs  *)
(* looks at the current status of the row it overwrites.                   *)
(***************************************************************************)
EXTENDS Naturals, Sequences, FiniteSets

CONSTANTS Jobs,      \* the job ids clients may submit
          Workers,   \* worker instance names
          None       \* SQL NULL, and "nobody" elsewhere

ASSUME StoreAssumption == IsFiniteSet(Jobs) /\ None \notin Workers

VARIABLES jobs,    \* the jobs table, "absent" for an id not yet inserted
          outbox   \* the outbox table in insertion order; a row id is its index

JobStatus == {"absent", "pending", "scheduled", "running", "succeeded", "failed"}

Terminal == {"succeeded", "failed"}

JobRow == [status : JobStatus, assigned : Workers \cup {None}, attempts : Nat]

CommandStatus == {"pending", "dispatched", "failed"}

CommandRow == [job : Jobs, status : CommandStatus, attempts : Nat]

NewCommand(j) == [job |-> j, status |-> "pending", attempts |-> 0]

StoreInit ==
  /\ jobs = [j \in Jobs |-> [status |-> "absent", assigned |-> None, attempts |-> 0]]
  /\ outbox = << >>

-----------------------------------------------------------------------------
(* Transactions that put a job in "pending": each one inserts a command. *)

\* Mutant: the plain CreateJob of store.go, which enqueues nothing.
CreateJobOnly(j) ==
  /\ jobs[j].status = "absent"
  /\ jobs' = [jobs EXCEPT ![j].status = "pending"]
  /\ UNCHANGED outbox

CreateJobWithOutbox(j) ==
  /\ jobs[j].status = "absent"
  /\ jobs' = [jobs EXCEPT ![j].status = "pending"]
  /\ outbox' = Append(outbox, NewCommand(j))

\* Mutant: accepted jobs that have not started are overlooked.
InFlightRunning(w) == {j \in Jobs : jobs[j].assigned = w /\ jobs[j].status = "running"}

\* Mutant: no condition on assigned_worker.
InFlightAnywhere(w) == {j \in Jobs : jobs[j].status \in {"scheduled", "running"}}

\* Mutant: no condition on status.
InFlightOrDone(w) == {j \in Jobs : jobs[j].assigned = w}

\* The rows ReclaimJobs updates: in flight, and assigned to w.
InFlightOf(w) ==
  {j \in Jobs : jobs[j].assigned = w /\ jobs[j].status \in {"scheduled", "running"}}

\* The lists of distinct members of S, in any order.
Lists(S) ==
  {e \in UNION {[1..n -> S] : n \in 0..Cardinality(S)} :
     \A i, k \in DOMAIN e : e[i] = e[k] => i = k}

\* The orders in which RETURNING may deliver the rows of S.
Enumerations(S) == {e \in Lists(S) : \A j \in S : \E i \in DOMAIN e : e[i] = j}

\* Mutant: reclaimed jobs get no command.
ReclaimWithoutCommand(w) ==
  /\ jobs' = [j \in Jobs |-> IF j \in InFlightOf(w)
                             THEN [jobs[j] EXCEPT !.status = "pending", !.assigned = None]
                             ELSE jobs[j]]
  /\ UNCHANGED outbox

ReclaimJobs(w) ==
  /\ jobs' = [j \in Jobs |-> IF j \in InFlightOf(w)
                             THEN [jobs[j] EXCEPT !.status = "pending", !.assigned = None]
                             ELSE jobs[j]]
  /\ \E e \in Enumerations(InFlightOf(w)) :
       outbox' = outbox \o [i \in DOMAIN e |-> NewCommand(e[i])]

-----------------------------------------------------------------------------
(* Updates of a job by its worker (and by the relay that abandons it). *)

MarkScheduled(j, w) ==
  /\ jobs' = [jobs EXCEPT ![j].status = "scheduled", ![j].assigned = w]
  /\ UNCHANGED outbox

MarkRunning(j) ==
  /\ jobs' = [jobs EXCEPT ![j].status = "running", ![j].attempts = @ + 1]
  /\ UNCHANGED outbox

MarkFinished(j, succeeded) ==
  /\ jobs' = [jobs EXCEPT ![j].status = IF succeeded THEN "succeeded" ELSE "failed"]
  /\ UNCHANGED outbox

-----------------------------------------------------------------------------
(* The relay's reads and writes of the outbox. *)

Rows == DOMAIN outbox

IsNewest(r, j) == outbox[r].job = j /\ \A q \in Rows : outbox[q].job = j => q <= r

PendingRows == {r \in Rows : outbox[r].status = "pending"}

\* The oldest pending rows, at most limit of them.  Nothing marks them claimed.
ClaimOutbox(limit) ==
  {r \in PendingRows : Cardinality({q \in PendingRows : q < r}) < limit}

MarkOutboxDispatched(r) ==
  /\ outbox' = [outbox EXCEPT ![r].status = "dispatched"]
  /\ UNCHANGED jobs

\* Mutant: a status the outbox table does not have.
MarkOutboxAbandoned(r) ==
  /\ outbox' = [outbox EXCEPT ![r].status = "abandoned"]
  /\ UNCHANGED jobs

MarkOutboxFailed(r) ==
  /\ outbox' = [outbox EXCEPT ![r].status = "failed"]
  /\ UNCHANGED jobs

RecordOutboxFailure(r) ==
  /\ outbox' = [outbox EXCEPT ![r].attempts = @ + 1]
  /\ UNCHANGED jobs
=============================================================================
