------------------------- MODULE PipelineRefinement -------------------------
(***************************************************************************)
(* The pipeline implements DispatchIntent: the intent to run a job is read *)
(* off its row in jobs and its newest row in outbox.                       *)
(***************************************************************************)
EXTENDS JobStore

\* "lost" is not a stage of DispatchIntent: no step may lead there.
IntentOf(j) ==
  CASE jobs[j].status = "absent" -> "unsubmitted"
    [] jobs[j].status \notin {"absent", "pending"} -> "released"
    [] jobs[j].status = "pending" ->
         IF \E r \in PendingRows : IsNewest(r, j) THEN "waiting"
         ELSE IF \E r \in Rows : IsNewest(r, j) /\ outbox[r].status = "failed" THEN "dropped"
         ELSE "lost"

Intent == INSTANCE DispatchIntent WITH intent <- [j \in Jobs |-> IntentOf(j)]

\* relay.go "at-least-once delivery that survives scheduler crashes and leader
\* failover": every step of schedulers, workers and reapers, faults included, is
\* a step of the durable intent or leaves it alone.
RefinesIntent == Intent!Spec
=============================================================================
