------------------------------ MODULE Gateway ------------------------------
(***************************************************************************)
(* The gateway's job API on top of the raft group.  A request is checked,  *)
(* then walks the schedulers from the one that answered last, in up to     *)
(* retryRounds rounds with a pause between them, until one gives a         *)
(* definitive answer, and the answer becomes an HTTP status.  Only a       *)
(* leader accepts a submission; any scheduler serves a read.  Requests are *)
(* taken one at a time.                                                    *)
(***************************************************************************)
EXTENDS RaftStatus

CONSTANTS Members,       \* the schedulers by name: the order of the walk
          retryRounds,   \* leaderclient: 3
          MaxLost        \* bound on calls of a request whose answer is lost

ASSUME GatewayAssumption ==
  /\ Members \in Seq(Nodes) /\ \A n \in Nodes : \E i \in 1..Len(Members) : Members[i] = n
  /\ Len(Members) = Cardinality(Nodes)
  /\ retryRounds \in Nat \ {0} /\ MaxLost \in Nat

VARIABLES cached,    \* Router.leader
          req,       \* the request: its kind, its place in the walk, its phase
          code,      \* the status of the newest response, 0 while there is none
          rows,      \* jobs that the request has stored
          ghosts,    \* transactions of calls given up, neither committed nor gone
          lost,      \* calls given up after a leader admitted them
          trouble,   \* a store error or the deadline ended the request
          steady     \* history: the members that have led since it arrived

jobVars == <<cached, req, code, rows, ghosts, lost, trouble, steady>>

gatewayVars == <<leadVars, statusVars, jobVars>>

\* A request that fails the checks of the gateway; submissions with and without a
\* valid name; a read of a job that does not exist, and one that has an answer (of a
\* job that does, GET /jobs, GET /outbox).
Kinds == {"malformed", "submit", "unnamed", "missing", "read"}

Writes == {"submit", "unnamed"}

Phases == {"idle", "call", "pause", "admitted", "stored"}

Codes ==
  [Unavailable |-> 502, FailedPrecondition |-> 502, DeadlineExceeded |-> 502,
   Internal |-> 502, InvalidArgument |-> 400, NotFound |-> 404]

\* Mutant: a scheduler's internal error sends the walk on.
RetriesInternal(err) ==
  err \in {"FailedPrecondition", "Unavailable", "DeadlineExceeded", "Internal"}

retryable(err) == err \in {"FailedPrecondition", "Unavailable", "DeadlineExceeded"}

\* Mutant: the walk stops at the end of the list of members.
FirstToLast(start, pos) ==
  LET k == start + (pos % Len(Members)) IN IF k > Len(Members) THEN Len(Members) ELSE k

\* The member to call at a position of the walk.
At(start, pos) == ((start - 1 + pos) % Len(Members)) + 1

Target == Members[At(req.start, req.pos)]

Steps == retryRounds * Len(Members)

Idle == [kind |-> "read", phase |-> "idle", start |-> 1, pos |-> 0]

-----------------------------------------------------------------------------
\* handleCreateJob, handleGetJob, handleListJobs and handleOutbox, up to the call.
Receive(k) ==
  /\ req.phase = "idle" /\ ghosts = 0 /\ ~asking
  /\ rows' = 0 /\ lost' = 0 /\ trouble' = FALSE
  /\ steady' = {n \in Nodes : IsLeader(n)}
  /\ IF k = "malformed"
     THEN code' = 400 /\ UNCHANGED req
     ELSE /\ code' = 0
          /\ req' = [kind |-> k, phase |-> "call", start |-> cached, pos |-> 0]
  /\ UNCHANGED <<cached, ghosts>>

Respond(c) == code' = c /\ req' = Idle

\* Mutant: the walk goes on after the last round.
WalksOn(err) ==
  IF retryable(err)
  THEN /\ req' = [req EXCEPT !.pos = (req.pos + 1) % Steps, !.phase = "call"]
       /\ UNCHANGED code
  ELSE Respond(Codes[err])

\* Mutant: one call too many after the last round.
OneCallMore(err) ==
  IF retryable(err) /\ req.pos + 1 <= Steps
  THEN req' = [req EXCEPT !.pos = req.pos + 1, !.phase = "call"] /\ UNCHANGED code
  ELSE Respond(Codes[err])

\* route, after a call that failed.
CallFailed(err) ==
  IF retryable(err) /\ req.pos + 1 < Steps
  THEN /\ req' = [req EXCEPT !.pos = req.pos + 1,
                             !.phase = IF (req.pos + 1) % Len(Members) = 0
                                       THEN "pause" ELSE "call"]
       /\ UNCHANGED code
  ELSE Respond(Codes[err])

CallSucceeded(c) ==
  /\ Respond(c)
  /\ cached' = At(req.start, req.pos)

\* A member that is down, one that does not lead, and what the handlers of the
\* scheduler answer without touching the store.
CallRejected ==
  /\ req.phase = "call"
  /\ \/ ~up[Target] /\ CallFailed("Unavailable")
     \/ /\ up[Target] /\ req.kind \in Writes /\ ~IsLeader(Target)
        /\ CallFailed("FailedPrecondition")
     \/ /\ IsLeader(Target) /\ req.kind = "unnamed"
        /\ CallFailed("InvalidArgument")
  /\ UNCHANGED <<cached, rows, ghosts, lost, trouble, steady>>

\* GetJob, ListJobs and GetOutboxStats, on any scheduler that runs.
CallRead ==
  /\ req.phase = "call" /\ req.kind \notin Writes /\ up[Target]
  /\ \/ /\ req.kind # "missing" /\ CallSucceeded(200)
        /\ UNCHANGED trouble
     \/ /\ req.kind = "missing" /\ CallFailed("NotFound")
        /\ UNCHANGED <<cached, trouble>>
     \/ /\ CallFailed("Internal") /\ trouble' = TRUE
        /\ UNCHANGED cached
  /\ UNCHANGED <<rows, ghosts, lost, steady>>

\* SubmitJob: a leader admits the submission ...
Admit ==
  /\ req.phase = "call" /\ req.kind = "submit" /\ IsLeader(Target)
  /\ req' = [req EXCEPT !.phase = "admitted"]
  /\ UNCHANGED <<cached, code, rows, ghosts, lost, trouble, steady>>

\* ... and commits the job with its command, whether or not it still leads ...
CreateJobWithOutbox ==
  /\ req.phase = "admitted"
  /\ rows' = rows + 1
  /\ req' = [req EXCEPT !.phase = "stored"]
  /\ UNCHANGED <<cached, code, ghosts, lost, trouble, steady>>

\* ... or fails to: nothing was written, or only the answer to COMMIT was lost.
CreateJobFails ==
  /\ req.phase = "admitted"
  /\ CallFailed("Internal")
  /\ trouble' = TRUE
  /\ rows' \in {rows, rows + 1}
  /\ UNCHANGED <<cached, ghosts, lost, steady>>

Created ==
  /\ req.phase = "stored"
  /\ CallSucceeded(201)
  /\ UNCHANGED <<rows, ghosts, lost, trouble, steady>>

InHandler == req.phase \in {"admitted", "stored"}

\* A call that a leader had admitted breaks: its transaction may be under way.
GiveUp ==
  /\ lost' = lost + 1
  /\ ghosts' = ghosts + (IF req.phase = "admitted" THEN 1 ELSE 0)

LoseAnswer ==
  /\ InHandler /\ lost < MaxLost
  /\ GiveUp
  /\ CallFailed("Unavailable")
  /\ UNCHANGED <<cached, rows, trouble, steady>>

GhostEnds ==
  /\ ghosts > 0
  /\ ghosts' = ghosts - 1
  /\ rows' \in {rows, rows + 1}
  /\ UNCHANGED <<cached, req, code, lost, trouble, steady>>

\* roundPause between two rounds.
PauseEnds ==
  /\ req.phase = "pause"
  /\ req' = [req EXCEPT !.phase = "call"]
  /\ UNCHANGED <<cached, code, rows, ghosts, lost, trouble, steady>>

\* submitTimeout or readTimeout: the call ends, those that are left fail without
\* being sent, and a pause returns.
DeadlineExpires ==
  /\ req.phase # "idle"
  /\ trouble' = TRUE
  /\ Respond(Codes["DeadlineExceeded"])
  /\ IF InHandler THEN GiveUp ELSE UNCHANGED <<lost, ghosts>>
  /\ UNCHANGED <<cached, rows, steady>>

-----------------------------------------------------------------------------
GatewayInit ==
  /\ RaftInit
  /\ cached \in DOMAIN Members
  /\ req = Idle
  /\ code = 0
  /\ rows = 0 /\ ghosts = 0 /\ lost = 0 /\ trouble = FALSE
  /\ steady = {}

JobProgress ==
  \/ CallRejected \/ CallRead \/ Admit
  \/ CreateJobWithOutbox \/ CreateJobFails \/ Created
  \/ PauseEnds

JobStep ==
  \/ \E k \in Kinds : Receive(k)
  \/ JobProgress
  \/ LoseAnswer \/ GhostEnds \/ DeadlineExpires

\* A member that stops breaks the call it is handling.
Stop(n) ==
  /\ Shutdown(n)
  /\ IF InHandler /\ Target = n
     THEN GiveUp /\ CallFailed("Unavailable")
     ELSE UNCHANGED <<req, code, lost, ghosts>>
  /\ steady' = steady \ {n}
  /\ UNCHANGED <<cached, rows, trouble>>

ElectionStep ==
  /\ \E n \in Nodes : LeadershipStep(n) \/ Start(n)
  /\ steady' = {n \in steady : IsLeader(n)'}
  /\ UNCHANGED <<cached, req, code, rows, ghosts, lost, trouble>>

GatewayNext ==
  \/ (ElectionStep \/ \E n \in Nodes : Stop(n)) /\ UNCHANGED statusVars
  \/ JobStep /\ UNCHANGED <<leadVars, statusVars>>
  \/ StatusStep /\ req.phase = "idle" /\ UNCHANGED <<leadVars, jobVars>>

GatewaySpec == GatewayInit /\ [][GatewayNext]_gatewayVars

\* A call is answered or fails and a pause ends; nothing is assumed of elections,
\* nor of the deadline.
GatewayFairness == WF_gatewayVars(JobProgress /\ UNCHANGED <<leadVars, statusVars>>)

-----------------------------------------------------------------------------
(***************************************************************************)
(* Properties                                                              *)
(***************************************************************************)

GatewayTypeOK ==
  /\ LeadershipTypeOK /\ StatusTypeOK
  /\ cached \in DOMAIN Members
  /\ req \in [kind : Kinds, phase : Phases, start : DOMAIN Members, pos : 0..(Steps - 1)]
  /\ code \in {0, 200, 201, 400, 404, 502}
  /\ rows \in Nat /\ ghosts \in Nat /\ lost \in Nat
  /\ trouble \in BOOLEAN /\ steady \subseteq Nodes

\* SubmitJob, route and writeRPCError: a submission stores one job, and one more
\* at most for each call whose answer was lost after a leader admitted it.  In
\* particular a refusal, by any mixture of stale leaders, stores none.
OneJobPerAnswer ==
  /\ rows + ghosts <= 1 + lost
  /\ code = 201 => rows >= 1
  /\ code \in {400, 404} => rows + ghosts = 0
  /\ code = 502 /\ ~trouble /\ lost = 0 => rows + ghosts = 0

\* route: "walks the scheduler set (leader-first ...)": a member that leads from
\* the request's arrival to its end is found, wherever the walk starts and
\* whatever the other members believe.  Only a store error, the deadline or a
\* broken call makes the gateway answer 502.
SteadyLeaderServes ==
  code = 502 /\ ~trouble /\ lost = 0 => steady = {}

\* Every request is answered, though leaders change without end under the walk
\* and before any deadline: the walk is finite.
RequestAnswered == req.phase # "idle" ~> req.phase = "idle"
=============================================================================
