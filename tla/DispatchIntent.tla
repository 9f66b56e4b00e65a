--------------------------- MODULE DispatchIntent ---------------------------
(***************************************************************************)
(* What the transactional outbox promises, with no outbox in it: a durable *)
(* intent to run each submitted job.  The intent waits until a worker      *)
(* takes the job, comes back when the worker is presumed dead, and is      *)
(* otherwise only ever dropped on purpose.                                 *)
(***************************************************************************)
CONSTANT Jobs

VARIABLE intent   \* intent[j]: what became of the intent to run j

Stages == {"unsubmitted", "waiting", "released", "dropped"}

Init == intent = [j \in Jobs |-> "unsubmitted"]

\* A client submits the job.
Submit(j) ==
  /\ intent[j] = "unsubmitted"
  /\ intent' = [intent EXCEPT ![j] = "waiting"]

\* The job leaves "pending": a worker has it, or it was failed for good.
Release(j) ==
  /\ intent[j] \in {"waiting", "dropped"}
  /\ intent' = [intent EXCEPT ![j] = "released"]

\* The relay gives up on the command.
Drop(j) ==
  /\ intent[j] = "waiting"
  /\ intent' = [intent EXCEPT ![j] = "dropped"]

\* The jobs of a dead worker have to be placed again.
Requeue(S) ==
  /\ \A j \in S : intent[j] = "released"
  /\ intent' = [j \in Jobs |-> IF j \in S THEN "waiting" ELSE intent[j]]

Next ==
  \/ \E j \in Jobs : Submit(j) \/ Release(j) \/ Drop(j)
  \/ \E S \in SUBSET Jobs : Requeue(S)

Spec == Init /\ [][Next]_intent
=============================================================================
