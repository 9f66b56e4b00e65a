------------------------------ MODULE JobReads ------------------------------
(***************************************************************************)
(* The read half of the REST API: GET /jobs, GET /jobs/{id} and GET        *)
(* /outbox.  The gateway turns a request into a protocol message, a        *)
(* scheduler answers it with one SELECT, and the gateway renders the       *)
(* answer, while the cluster goes on writing to the tables.  What happens  *)
(* when calls fail is the subject of module Gateway.                       *)
(***************************************************************************)
EXTENDS JobStore

CONSTANTS defaultLimit, maxLimit,
          MaxAttempts       \* bound on the executions, and on the deferrals, of a job

VARIABLES created,   \* the ids in jobs in the order of created_at
          msg,       \* the call between the gateway and the scheduler
          answer,    \* the newest response, until the next write or request
          asked,     \* history: the parameters of the request
          asOf       \* history: the tables when the SELECT was run

readVars == <<msg, answer, asked, asOf>>
jobReadsVars == <<jobs, outbox, created, readVars>>

tables == <<jobs, outbox, created>>

Nothing == [kind |-> "none"]

-----------------------------------------------------------------------------
(* The messages of JobService *)

JobStatusEnum == 0..5     \* JOB_STATUS_UNSPECIFIED is 0

Job == [Id : Jobs, Status : JobStatusEnum,
        AssignedWorkerId : Workers \cup {None}, Attempts : Nat]

ListJobsRequest == [kind : {"ListJobs"}, StatusFilter : JobStatusEnum, PageSize : 1..maxLimit]

GetJobRequest == [kind : {"GetJob"}, Id : Jobs]

GetOutboxStatsRequest == [kind : {"GetOutboxStats"}]

ListJobsResponse == [kind : {"Jobs"}, Jobs : Seq(Job)]

GetJobResponse == [kind : {"Job"}, Job : Job]

NotFound == [kind |-> "NotFound"]

GetOutboxStatsResponse ==
  [kind : {"Stats"}, Pending : Nat, Dispatched : Nat, Failed : Nat, Oldest : Nat]

\* Mutant: an entry is missing, so "scheduled" becomes UNSPECIFIED.
StatusNumber(s) ==
  CASE s = "pending" -> 1 [] s = "running" -> 3
    [] s = "succeeded" -> 4 [] s = "failed" -> 5 [] OTHER -> 0

StatusToProto(s) ==
  CASE s = "pending" -> 1 [] s = "scheduled" -> 2 [] s = "running" -> 3
    [] s = "succeeded" -> 4 [] s = "failed" -> 5 [] OTHER -> 0

validStatuses == JobStatus \ {"absent"}

\* The inverse map; a number that is not in it gives "".
StatusFromProto(p) ==
  IF \E s \in validStatuses : StatusToProto(s) = p
  THEN CHOOSE s \in validStatuses : StatusToProto(s) = p
  ELSE ""

JobToProto(j) ==
  [Id |-> j, Status |-> StatusToProto(jobs[j].status),
   AssignedWorkerId |-> jobs[j].assigned, Attempts |-> jobs[j].attempts]

renderJob(p) ==
  [ID |-> p.Id, Status |-> StatusFromProto(p.Status),
   AssignedWorker |-> p.AssignedWorkerId, Attempts |-> p.Attempts]

-----------------------------------------------------------------------------
(* The gateway's handlers, up to the call *)

Ask(params, m) ==
  /\ msg = Nothing
  /\ asked' = params
  /\ msg' = m
  /\ answer' = Nothing /\ asOf' = Nothing
  /\ UNCHANGED tables

\* Mutant: the upper bound is not checked.
AtLeastOne(n) == IF n < 1 THEN defaultLimit ELSE n

\* The limit in force; both the gateway and the scheduler compute it.
limit(n) == IF n < 1 \/ n > maxLimit THEN defaultLimit ELSE n

\* A filter that is no status is refused; no filter is "".  n = 0 stands for no
\* limit parameter as well.
handleListJobs(filter, n) ==
  /\ filter = "" \/ filter \in validStatuses
  /\ Ask([kind |-> "list", filter |-> filter, limit |-> n],
         [kind |-> "ListJobs", StatusFilter |-> StatusToProto(filter), PageSize |-> limit(n)])

handleGetJob(id) ==
  Ask([kind |-> "get", id |-> id], [kind |-> "GetJob", Id |-> id])

handleOutbox == Ask([kind |-> "outbox"], [kind |-> "GetOutboxStats"])

-----------------------------------------------------------------------------
(* The scheduler's handlers, with the one statement each of them runs *)

Select(m) ==
  /\ msg' = m
  /\ asOf' = [jobs |-> jobs, outbox |-> outbox, created |-> created]
  /\ UNCHANGED <<tables, answer, asked>>

SelectJobs(status, n) ==
  LET Matches(j) == status = "" \/ jobs[j].status = status
      matching == SelectSeq(created, Matches)
      size == Len(matching)
  IN  [i \in 1..(IF n < size THEN n ELSE size) |-> matching[size + 1 - i]]

ListJobs ==
  /\ msg.kind = "ListJobs"
  /\ LET rows == SelectJobs(StatusFromProto(msg.StatusFilter), limit(msg.PageSize)) IN
     Select([kind |-> "Jobs", Jobs |-> [i \in DOMAIN rows |-> JobToProto(rows[i])]])

GetJob ==
  /\ msg.kind = "GetJob"
  /\ Select(IF jobs[msg.Id].status = "absent" THEN NotFound
            ELSE [kind |-> "Job", Job |-> JobToProto(msg.Id)])

Counted(s) == Cardinality({r \in Rows : outbox[r].status = s})

\* Mutant: commands that were deferred are not counted as pending.
CountsUntried ==
  [kind |-> "Stats", Dispatched |-> Counted("dispatched"), Failed |-> Counted("failed"),
   Pending |-> Cardinality({r \in PendingRows : outbox[r].attempts = 0}),
   Oldest |-> IF PendingRows = {} THEN 0
              ELSE CHOOSE r \in PendingRows : \A q \in PendingRows : r <= q]

\* Oldest stands for oldest_pending_seconds: the row that gives it, 0 if none does.
OutboxStats ==
  [kind |-> "Stats", Dispatched |-> Counted("dispatched"), Failed |-> Counted("failed"),
   Pending |-> Counted("pending"),
   Oldest |-> IF PendingRows = {} THEN 0
              ELSE CHOOSE r \in PendingRows : \A q \in PendingRows : r <= q]

GetOutboxStats == msg.kind = "GetOutboxStats" /\ Select(OutboxStats)

-----------------------------------------------------------------------------
(* The gateway's handlers, after the call *)

Respond ==
  /\ msg.kind \in {"Jobs", "Job", "NotFound", "Stats"}
  /\ answer' = CASE msg.kind = "Jobs" -> [kind |-> "page",
                                          jobs |-> [i \in DOMAIN msg.Jobs |-> renderJob(msg.Jobs[i])]]
                 [] msg.kind = "Job" -> [kind |-> "job", job |-> renderJob(msg.Job)]
                 [] OTHER -> msg
  /\ msg' = Nothing
  /\ UNCHANGED <<tables, asked, asOf>>

-----------------------------------------------------------------------------
(* The writes of the cluster: the relay, the workers and the reaper at work. *)

Submit(j) == CreateJobWithOutbox(j) /\ created' = Append(created, j)

RelayWrites(r) ==
  LET job == jobs[outbox[r].job] IN
  /\ outbox[r].status = "pending"
  /\ \/ job.status # "pending" /\ MarkOutboxDispatched(r)
     \/ /\ job.status = "pending" /\ outbox[r].attempts < MaxAttempts
        /\ RecordOutboxFailure(r)
     \/ /\ job.status = "pending" /\ outbox[r].attempts = MaxAttempts
        /\ MarkOutboxFailed(r)

\* The second write of abandon().
Abandon(r) ==
  /\ outbox[r].status = "failed" /\ jobs[outbox[r].job].status = "pending"
  /\ IsNewest(r, outbox[r].job)
  /\ MarkFinished(outbox[r].job, FALSE)

WorkerWrites(j, w) ==
  \/ /\ jobs[j].status = "pending"
     /\ \E r \in PendingRows : outbox[r].job = j
     /\ MarkScheduled(j, w)
  \/ jobs[j].status = "scheduled" /\ jobs[j].assigned = w /\ MarkRunning(j)
  \/ /\ jobs[j].status = "running" /\ jobs[j].assigned = w
     /\ \E succeeded \in BOOLEAN : MarkFinished(j, succeeded)

ReaperWrites(w) ==
  /\ InFlightOf(w) # {}
  /\ \A j \in InFlightOf(w) : jobs[j].attempts < MaxAttempts
  /\ Cardinality(Rows) < 2 * Cardinality(Jobs)
  /\ ReclaimJobs(w)

Write ==
  /\ \/ \E j \in Jobs : Submit(j)
     \/ /\ \/ \E r \in Rows : RelayWrites(r) \/ Abandon(r)
           \/ \E w \in Workers : ReaperWrites(w) \/ \E j \in Jobs : WorkerWrites(j, w)
        /\ UNCHANGED created
  /\ IF msg = Nothing THEN answer' = Nothing /\ asOf' = Nothing /\ asked' = Nothing
     ELSE UNCHANGED <<answer, asOf, asked>>
  /\ UNCHANGED msg

JobReadsInit ==
  /\ StoreInit
  /\ created = << >>
  /\ msg = Nothing /\ answer = Nothing /\ asked = Nothing /\ asOf = Nothing

Request ==
  \/ \E filter \in validStatuses \cup {"", "other"}, n \in 0..(maxLimit + 1) : handleListJobs(filter, n)
  \/ \E id \in Jobs : handleGetJob(id)
  \/ handleOutbox

JobReadsNext == Write \/ Request \/ ListJobs \/ GetJob \/ GetOutboxStats \/ Respond

JobReadsSpec == JobReadsInit /\ [][JobReadsNext]_jobReadsVars

-----------------------------------------------------------------------------
(***************************************************************************)
(* Properties                                                              *)
(***************************************************************************)

\* Every message on its way is one the protocol definition has; in particular
\* the limit the gateway casts to uint32 is between 1 and maxLimit.
MessagesTypeOK ==
  \/ msg \in {Nothing, NotFound}
  \/ msg \in ListJobsRequest \/ msg \in GetJobRequest \/ msg \in GetOutboxStatsRequest
  \/ msg \in ListJobsResponse \/ msg \in GetJobResponse \/ msg \in GetOutboxStatsResponse

Place(j) == CHOOSE i \in DOMAIN asOf.created : asOf.created[i] = j

\* schedulersvc.go ListJobs "returns the newest jobs, optionally filtered by
\* status": what GET /jobs answers, after the status went through the protocol's
\* enum twice and the limit through two handlers, is a cut of the table at one
\* instant.  Every job on the page has the status asked for, they are ordered
\* from the newest, the page is full unless there are no more, and no matching
\* job is passed over for an older one.
PageIsNewest ==
  answer.kind = "page" =>
    LET page   == answer.jobs
        ids    == {page[i].ID : i \in DOMAIN page}
        wanted == {j \in Jobs : /\ asOf.jobs[j].status # "absent"
                                /\ asked.filter \in {"", asOf.jobs[j].status}}
        most   == IF asked.limit \in 1..maxLimit THEN asked.limit ELSE defaultLimit
    IN  /\ \A i \in DOMAIN page : page[i].Status = asOf.jobs[page[i].ID].status
        /\ \A i, k \in DOMAIN page : i < k => Place(page[i].ID) > Place(page[k].ID)
        /\ ids \subseteq wanted
        /\ Len(page) <= most
        /\ Len(page) < most => ids = wanted
        /\ \A j \in wanted \ ids, k \in ids : Place(j) < Place(k)

\* gatewayhttp.go handleOutbox "commands committed but not yet relayed to a
\* worker": the numbers GET /outbox shows add up to the table, an age is shown
\* exactly when something is pending, and every job that is pending stands
\* behind a command that is counted as pending or as failed.
BacklogAccounted ==
  answer.kind = "Stats" =>
    /\ answer.Pending + answer.Dispatched + answer.Failed = Len(asOf.outbox)
    /\ answer.Oldest = 0 <=> answer.Pending = 0
    /\ Cardinality({j \in Jobs : asOf.jobs[j].status = "pending"})
         <= answer.Pending + answer.Failed
=============================================================================
