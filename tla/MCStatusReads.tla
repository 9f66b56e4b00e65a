---------------------------- MODULE MCStatusReads ----------------------------
(* The gateway's reads other than /raft: /crdt and its controls, /health, and *)
(* /jobs with /outbox.  They share nothing, so a behaviour follows one of     *)
(* them; the variables of the others keep their first values.                 *)
EXTENDS CRDTView, ClusterHealth, Sequences, TLC

CONSTANTS w1, w2, Listed   \* Listed: the ids of the jobs that /jobs lists

VARIABLES part, jobs, outbox, created, msg, answer, asked, asOf

Reads == INSTANCE JobReads WITH Jobs <- Listed, Workers <- {w1},
           defaultLimit <- 1, maxLimit <- 2, MaxAttempts <- 1

jobReadsVars == <<jobs, outbox, created, msg, answer, asked, asOf>>

statusReadsVars == <<crdtViewVars, healthVars, jobReadsVars, part>>

MCHome == w1 :> 1 @@ w2 :> 2

OneInstant == [r \in Replicas |-> {1}]

\* Bounds on /crdt: each worker reports once, the one a failure, the other a
\* success ...
OneReportEach ==
  /\ ingested[1]["succeeded"] = 0 /\ ingested[2]["failed"] = 0
  /\ ingested[1]["failed"] <= 1 /\ ingested[2]["succeeded"] <= 1

\* ... and a behaviour has one state request, with its response, or requests that
\* switch gossip.
Unasked == view = "diverged" /\ got = [r \in Replicas |-> Unreachable]

NoControl == outcome = "undone" /\ control.left = {} /\ control.enabled /\ ~control.failed

OneEndpoint == Unasked' \/ (NoControl' /\ (Unasked \/ Fetching))

CRDTStep ==
  /\ part = "crdt" /\ UNCHANGED <<healthVars, jobReadsVars, part>>
  /\ CRDTViewNext
  /\ OneReportEach' /\ OneEndpoint

HealthStep ==
  /\ part = "health" /\ UNCHANGED <<crdtViewVars, jobReadsVars, part>>
  /\ HealthNext

\* Bounds on /jobs and /outbox: one reclaimed job, one deferred command, and
\* new jobs between a SELECT and the response.  A write before the SELECT is the
\* same as one before the request, and a request that follows an answer the same
\* as one instead of it.
OneReclaim == Len(outbox) <= Cardinality(Listed) + 1

OneDeferral == Cardinality({r \in DOMAIN outbox : outbox[r].attempts > 0}) <= 1

NewJobMeanwhile ==
  \/ UNCHANGED <<jobs, outbox, created>>
  \/ msg.kind = "none"
  \/ msg.kind \in {"Jobs", "Job", "NotFound", "Stats"} /\ created' # created

OneRequest == answer.kind # "none" => msg'.kind = "none"

JobsStep ==
  /\ part = "jobs" /\ UNCHANGED <<crdtViewVars, healthVars, part>>
  /\ Reads!JobReadsNext
  /\ OneRequest /\ NewJobMeanwhile
  /\ OneReclaim' /\ OneDeferral'

StatusReadsInit ==
  /\ part \in {"crdt", "health", "jobs"}
  /\ CRDTViewInit /\ HealthInit /\ Reads!JobReadsInit
  /\ part # "health" => working = [c \in Components |-> TRUE]

StatusReadsNext == CRDTStep \/ HealthStep \/ JobsStep

StatusReadsSpec == StatusReadsInit /\ [][StatusReadsNext]_statusReadsVars

\* Every message between the gateway and the scheduler is one of the protocol.
MessagesTypeOK == Reads!MessagesTypeOK

\* GET /jobs answers with the newest jobs that match, as they were at one instant.
PageIsNewest == Reads!PageIsNewest

\* The numbers of GET /outbox account for every command and every pending job.
BacklogAccounted == Reads!BacklogAccounted
=============================================================================
